---- MODULE Spec2Model ----
(***************************************************************************)
(* Keyring of open-wallet (packages/keyring): the mnemonic, the HD wallet, *)
(* the two account maps with their next-index counters, the encrypted      *)
(* export/import envelope, and the Base58 codec of the Solana accounts.    *)
(***************************************************************************)
EXTENDS Integers, Sequences, FiniteSets, TLC

(* ---------------------------------------------------------------------- *)
(* Bounds                                                                  *)
(* ---------------------------------------------------------------------- *)

\* cap on each of the two next-index counters in LifecycleSpec (createAccount is
\* not offered beyond it)
MaxIndex == 2

\* the same cap in Spec, where an exported envelope is kept beside the keyring
MaxStoredIndex == 1

\* longest byte array given to the Base58 codec
MaxLen == 3

\* the derivation indices a wallet's keyring hands out stay below MaxWalletIndex
MaxWalletIndex == 2

(* ---------------------------------------------------------------------- *)
(* Input domains                                                           *)
(* ---------------------------------------------------------------------- *)

\* `null` of the source
Null == "null"

\* `undefined` for an optional string argument (strings are sequences)
Undefined == <<"undefined">>

\* valid BIP-39 phrases (what generateMnemonic can return / validateMnemonic accepts)
Mnemonics == {"abandon x11 about", "zoo x23 vote"}

\* phrases validateMnemonic rejects
InvalidMnemonics == {"not a phrase"}

WordCounts == {12, 24}

Passwords == {"pw1", "pw2"}

\* the name given to createAccount: none for the first account of a family (the
\* default name is used), a name for every later one
AccountNames(index) == IF index = 0 THEN {Undefined} ELSE {<<"Savings">>}

Uuids == {"uuid-a"}

Timestamps == {1700000000}

\* byte strings, as sequences
Salts == {<<"salt-a">>}

Nonces == {<<"iv-a">>}

\* chain families offered to createAccount: the two of the enum and a value outside it
ChainFamilyEVM == "evm"

ChainFamilySOLANA == "solana"

ChainFamilyInputs == {ChainFamilyEVM, ChainFamilySOLANA, "bitcoin"}

(* ---------------------------------------------------------------------- *)
(* State                                                                   *)
(* ---------------------------------------------------------------------- *)

VARIABLES
  mnemonic,         \* Keyring.mnemonic: a phrase or Null
  hdWallet,         \* Keyring.hdWallet: the phrase the master key was built from, or Null
  evmAccounts,      \* Keyring.evmAccounts: Map in insertion order, seq of [key, value]
  solanaAccounts,   \* Keyring.solanaAccounts: likewise
  nextEvmIndex,     \* Keyring.nextEvmIndex
  nextSolanaIndex,  \* Keyring.nextSolanaIndex
  exported,         \* what the caller holds of the latest export(): <<>> or <<[envelope, password, snapshot]>>
  last,             \* the most recent call: operation, arguments, Result
  b58,              \* Base58 codec run: [pc, bytes, str, out]
  storage,          \* the IStorage shared by the wallets: storage key -> <<>> (null) or <<value>>
  wallets,          \* the LocalWallet objects: [state, metadata, keyring, password] each
  called            \* the most recent wallet or alias-registry call and its outcome

keyringVars == <<mnemonic, hdWallet, evmAccounts, solanaAccounts, nextEvmIndex, nextSolanaIndex>>

walletVars == <<storage, wallets, called>>

vars == <<mnemonic, hdWallet, evmAccounts, solanaAccounts, nextEvmIndex, nextSolanaIndex,
          exported, last, b58, storage, wallets, called>>

(* ---------------------------------------------------------------------- *)
(* Result<T>                                                               *)
(* ---------------------------------------------------------------------- *)

ok(value) == [ok |-> TRUE, code |-> "", value |-> value]

err(code) == [ok |-> FALSE, code |-> code, value |-> <<>>]

(* ---------------------------------------------------------------------- *)
(* JavaScript Map, in insertion order                                      *)
(* ---------------------------------------------------------------------- *)

EmptyMap == <<>>

MapHas(map, key) == \E i \in DOMAIN map : map[i].key = key

\* Map.prototype.get: the value as a one-element sequence, <<>> for undefined
MapGet(map, key) ==
  IF MapHas(map, key)
  THEN <<map[CHOOSE i \in DOMAIN map : map[i].key = key].value>>
  ELSE <<>>

\* Map.prototype.set: an existing key keeps its position, a new key is appended
MapSet(map, key, value) ==
  IF MapHas(map, key)
  THEN [i \in DOMAIN map |-> IF map[i].key = key THEN [key |-> key, value |-> value] ELSE map[i]]
  ELSE Append(map, [key |-> key, value |-> value])

\* Array.from(map.values())
MapValues(map) == [i \in DOMAIN map |-> map[i].value]

(* ---------------------------------------------------------------------- *)
(* Strings that the code inspects: '' is the empty sequence                *)
(* ---------------------------------------------------------------------- *)

EmptyString == <<>>

\* JavaScript truthiness of a string: '' is falsy
Truthy(str) == str # EmptyString

(* ---------------------------------------------------------------------- *)
(* Mnemonic module                                                         *)
(* ---------------------------------------------------------------------- *)

validateMnemonic(phrase) == phrase \in Mnemonics

WordCountOf(phrase) == IF phrase = "abandon x11 about" THEN 12 ELSE 24

\* generateMnemonic(wordCount): any valid phrase of that many words
generateMnemonic(wordCount) == {m \in Mnemonics : WordCountOf(m) = wordCount}

(* ---------------------------------------------------------------------- *)
(* HD derivation: a derived key is determined by the master phrase and the *)
(* path; distinct (phrase, path) give distinct keys                        *)
(* ---------------------------------------------------------------------- *)

Hard(i) == [index |-> i, hardened |-> TRUE]

Soft(i) == [index |-> i, hardened |-> FALSE]

\* HDWallet.fromMnemonic (passphrase ''): the master key of the phrase
HDWalletFromMnemonic(phrase) == phrase

\* m/44'/60'/0'/0/{index}
deriveEvmKey(wallet, index) ==
  [master |-> wallet, path |-> <<Hard(44), Hard(60), Hard(0), Soft(0), Soft(index)>>]

\* m/44'/501'/{index}'/0'
deriveSolanaKey(wallet, index) ==
  [master |-> wallet, path |-> <<Hard(44), Hard(501), Hard(index), Hard(0)>>]

\* getDerivationPath(chainFamily, index) of the types package
getDerivationPath(chainFamily, index) ==
  IF chainFamily = ChainFamilyEVM
  THEN <<Hard(44), Hard(60), Hard(0), Soft(0)>> \o <<Soft(index)>>
  ELSE <<Hard(44), Hard(501)>> \o <<Hard(index), Hard(0)>>

(* ---------------------------------------------------------------------- *)
(* Addresses: the text of an address is its derived key plus its spelling  *)
(* ---------------------------------------------------------------------- *)

\* EIP-55 checksummed address of the key's public key
publicKeyToEvmAddress(hdKey) == [chain |-> ChainFamilyEVM, of |-> hdKey, form |-> "checksum"]

\* base58 of the ed25519 public key
seedToSolanaAddress(hdKey) == [chain |-> ChainFamilySOLANA, of |-> hdKey, form |-> "exact"]

\* String.prototype.toLowerCase: one lower-case spelling per hex address; a base58
\* address that is lower-cased is no longer the address
toLowerCase(address) ==
  IF address.chain = ChainFamilyEVM
  THEN [address EXCEPT !.form = "lower"]
  ELSE [address EXCEPT !.form = "lowered"]

(* ---------------------------------------------------------------------- *)
(* Account construction                                                    *)
(* ---------------------------------------------------------------------- *)

createEvmAccountFromHDKey(hdKey, index, name, id, now) ==
  [ id             |-> id,
    name           |-> IF name = Undefined THEN <<"EVM Account", index + 1>> ELSE name,
    address        |-> publicKeyToEvmAddress(hdKey),
    chainFamily    |-> ChainFamilyEVM,
    derivationPath |-> getDerivationPath(ChainFamilyEVM, index),
    index          |-> index,
    publicKey      |-> <<"secp256k1-pub", hdKey>>,
    privateKey     |-> <<"secp256k1-priv", hdKey>>,
    createdAt      |-> now ]

\* the account numbered as it is named, from 1
createSolanaAccountFromHDKey_OneBased(hdKey, index, name, id, now) ==
  [ id             |-> id,
    name           |-> IF name = Undefined THEN <<"Solana Account", index + 1>> ELSE name,
    address        |-> seedToSolanaAddress(hdKey),
    chainFamily    |-> ChainFamilySOLANA,
    derivationPath |-> getDerivationPath(ChainFamilySOLANA, index),
    index          |-> index + 1,
    publicKey      |-> <<"ed25519-pub", hdKey>>,
    privateKey     |-> <<"ed25519-seed", hdKey, "ed25519-pub", hdKey>>,
    secretSeed     |-> <<"ed25519-seed", hdKey>>,
    createdAt      |-> now ]

createSolanaAccountFromHDKey(hdKey, index, name, id, now) ==
  [ id             |-> id,
    name           |-> IF name = Undefined THEN <<"Solana Account", index + 1>> ELSE name,
    address        |-> seedToSolanaAddress(hdKey),
    chainFamily    |-> ChainFamilySOLANA,
    derivationPath |-> getDerivationPath(ChainFamilySOLANA, index),
    index          |-> index,
    publicKey      |-> <<"ed25519-pub", hdKey>>,
    privateKey     |-> <<"ed25519-seed", hdKey, "ed25519-pub", hdKey>>,
    secretSeed     |-> <<"ed25519-seed", hdKey>>,
    createdAt      |-> now ]

(* ---------------------------------------------------------------------- *)
(* Crypto primitives                                                       *)
(* ---------------------------------------------------------------------- *)

KdfPBKDF2 == "pbkdf2"

KdfSCRYPT == "scrypt"

AES_256_GCM == "aes-256-gcm"

DEFAULT_PBKDF2_ITERATIONS == 600000

DEFAULT_PBKDF2_KEYLENGTH == 32

\* Buffer.from(bytes).toString('base64') and Buffer.from(text, 'base64')
Base64Encode(bytes) == <<"base64", bytes>>

Base64Decode(text) == text[2]

\* deriveKey for PBKDF2-HMAC-SHA256: the key is determined by all four inputs,
\* and different inputs give different keys
deriveKeyPbkdf2(password, salt, iterations, keyLength) ==
  [password |-> password, salt |-> salt, iterations |-> iterations, length |-> keyLength]

\* gcm(key, iv).encrypt(data): ciphertext and tag
GcmEncrypt(key, iv, data) == [key |-> key, iv |-> iv, data |-> data, intact |-> TRUE]

\* a cipher without authentication: decryption goes through on altered bytes
GcmVerifies_NoTag(key, iv, ciphertext) ==
  ciphertext.key = key /\ ciphertext.iv = iv

\* gcm(key, iv).decrypt(ciphertext): the tag verifies only under the key and nonce
\* of the encryption and only on unaltered bytes
GcmVerifies(key, iv, ciphertext) ==
  ciphertext.intact /\ ciphertext.key = key /\ ciphertext.iv = iv

\* encrypt(data, key) with the nonce drawn by randomBytes
encrypt(data, key, iv) ==
  [ algorithm  |-> AES_256_GCM,
    iv         |-> Base64Encode(iv),
    ciphertext |-> Base64Encode(GcmEncrypt(key, iv, data)) ]

\* decrypt(encryptedData, key): <<plaintext>>, or <<>> when it throws
decrypt(encryptedData, key) ==
  IF encryptedData.algorithm # AES_256_GCM THEN <<>>
  ELSE IF key.length # 32 THEN <<>>
  ELSE IF GcmVerifies(key, Base64Decode(encryptedData.iv), Base64Decode(encryptedData.ciphertext))
       THEN <<Base64Decode(encryptedData.ciphertext).data>>
       ELSE <<>>

(* ---------------------------------------------------------------------- *)
(* JSON: an object is the sequence of its <<name, value>> members          *)
(* ---------------------------------------------------------------------- *)

EvmAccountFields ==
  <<"id", "name", "address", "chainFamily", "derivationPath", "index",
    "publicKey", "privateKey", "createdAt">>

SolanaAccountFields ==
  <<"id", "name", "address", "chainFamily", "derivationPath", "index",
    "publicKey", "privateKey", "secretSeed", "createdAt">>

StringifyObject(object, fields) ==
  [i \in DOMAIN fields |-> <<fields[i], object[fields[i]]>>]

ParseObject(members) ==
  [f \in {members[i][1] : i \in DOMAIN members} |->
     members[CHOOSE i \in DOMAIN members : members[i][1] = f][2]]

\* JSON.stringify(data) of a KeyringData
JsonStringify(data) ==
  << <<"mnemonic", data.mnemonic>>,
     <<"evmAccounts",
       [i \in DOMAIN data.evmAccounts |-> StringifyObject(data.evmAccounts[i], EvmAccountFields)]>>,
     <<"solanaAccounts",
       [i \in DOMAIN data.solanaAccounts |->
          StringifyObject(data.solanaAccounts[i], SolanaAccountFields)]>>,
     <<"nextEvmIndex", data.nextEvmIndex>>,
     <<"nextSolanaIndex", data.nextSolanaIndex>> >>

JsonMember(text, name) == text[CHOOSE i \in DOMAIN text : text[i][1] = name][2]

\* JSON.parse(json) as KeyringData
JsonParse(text) ==
  [ mnemonic        |-> JsonMember(text, "mnemonic"),
    evmAccounts     |-> [i \in DOMAIN JsonMember(text, "evmAccounts") |->
                           ParseObject(JsonMember(text, "evmAccounts")[i])],
    solanaAccounts  |-> [i \in DOMAIN JsonMember(text, "solanaAccounts") |->
                           ParseObject(JsonMember(text, "solanaAccounts")[i])],
    nextEvmIndex    |-> JsonMember(text, "nextEvmIndex"),
    nextSolanaIndex |-> JsonMember(text, "nextSolanaIndex") ]

encryptJson(data, key, iv) == encrypt(JsonStringify(data), key, iv)

\* decryptJson(encryptedData, key): <<data>>, or <<>> when it throws
decryptJson(encryptedData, key) ==
  IF Len(decrypt(encryptedData, key)) = 0 THEN <<>>
  ELSE <<JsonParse(decrypt(encryptedData, key)[1])>>

(* ---------------------------------------------------------------------- *)
(* Keyring                                                                 *)
(* ---------------------------------------------------------------------- *)

\* the five persisted fields of the keyring as it is now
KeyringSnapshot ==
  [ mnemonic        |-> mnemonic,
    evmAccounts     |-> evmAccounts,
    solanaAccounts  |-> solanaAccounts,
    nextEvmIndex    |-> nextEvmIndex,
    nextSolanaIndex |-> nextSolanaIndex ]

\* isUnlocked()
isUnlocked == mnemonic # Null

\* what a call is observed to be: the operation, its arguments, its Result, and
\* whether the keyring was unlocked and how many accounts it held when called
Call(op, args, result) ==
  [ op     |-> op,
    args   |-> args,
    result |-> result,
    before |-> [unlocked |-> isUnlocked,
                accounts |-> Len(evmAccounts) + Len(solanaAccounts)] ]

\* account.privateKey = '' (and secretSeed = '' for Solana) on every value of a map
BlankEvm(map) ==
  [i \in DOMAIN map |-> [map[i] EXCEPT !.value.privateKey = EmptyString]]

\* a lock() that blanks only the seed of a Solana account
BlankSolana_SeedOnly(map) ==
  [i \in DOMAIN map |-> [map[i] EXCEPT !.value.secretSeed = EmptyString]]

BlankSolana(map) ==
  [i \in DOMAIN map |->
     [map[i] EXCEPT !.value.privateKey = EmptyString, !.value.secretSeed = EmptyString]]

\* an unlock(mnemonic) that builds the HD wallet and does not keep the phrase
unlock_WalletOnly(phrase) ==
  /\ mnemonic' = mnemonic
  /\ hdWallet' = HDWalletFromMnemonic(phrase)

\* private unlock(mnemonic)
unlock(phrase) ==
  /\ mnemonic' = phrase
  /\ hdWallet' = HDWalletFromMnemonic(phrase)

\* a lock() that drops the mnemonic and keeps the HD wallet
lock_KeepWallet ==
  /\ mnemonic' = Null
  /\ hdWallet' = hdWallet

\* the assignments of lock()
lock ==
  /\ mnemonic' = Null
  /\ hdWallet' = Null

\* initialize(wordCount)
Initialize(wordCount) ==
  \E phrase \in generateMnemonic(wordCount) :
    /\ unlock(phrase)
    /\ last' = Call("initialize", <<wordCount>>, ok(<<phrase>>))
    /\ UNCHANGED <<evmAccounts, solanaAccounts, nextEvmIndex, nextSolanaIndex, exported, b58, walletVars>>

\* a restore(mnemonic) that starts the derivation indices again at zero
Restore_ResetCounters(phrase) ==
  /\ IF ~validateMnemonic(phrase)
     THEN /\ last' = Call("restore", <<phrase>>, err("INVALID_MNEMONIC"))
          /\ UNCHANGED <<mnemonic, hdWallet, nextEvmIndex, nextSolanaIndex>>
     ELSE /\ unlock(phrase)
          /\ nextEvmIndex' = 0
          /\ nextSolanaIndex' = 0
          /\ last' = Call("restore", <<phrase>>, ok(<<>>))
  /\ UNCHANGED <<evmAccounts, solanaAccounts, exported, b58, walletVars>>

\* restore(mnemonic)
Restore(phrase) ==
  /\ IF ~validateMnemonic(phrase)
     THEN /\ last' = Call("restore", <<phrase>>, err("INVALID_MNEMONIC"))
          /\ UNCHANGED <<mnemonic, hdWallet>>
     ELSE /\ unlock(phrase)
          /\ last' = Call("restore", <<phrase>>, ok(<<>>))
  /\ UNCHANGED <<evmAccounts, solanaAccounts, nextEvmIndex, nextSolanaIndex, exported, b58, walletVars>>

\* lock()
Lock ==
  /\ lock
  /\ evmAccounts' = BlankEvm(evmAccounts)
  /\ solanaAccounts' = BlankSolana(solanaAccounts)
  /\ last' = Call("lock", <<>>, ok(<<>>))
  /\ UNCHANGED <<nextEvmIndex, nextSolanaIndex, exported, b58, walletVars>>

\* a getMnemonic() without the lock check
GetMnemonic_Unchecked ==
  /\ last' = Call("getMnemonic", <<>>, ok(<<mnemonic>>))
  /\ UNCHANGED <<keyringVars, exported, b58, walletVars>>

\* getMnemonic()
GetMnemonic ==
  /\ last' = Call("getMnemonic", <<>>,
                  IF mnemonic = Null THEN err("WALLET_LOCKED") ELSE ok(<<mnemonic>>))
  /\ UNCHANGED <<keyringVars, exported, b58, walletVars>>

\* createAccount(chainFamily, name)
CreateAccount(chainFamily, name, id, now) ==
  IF hdWallet = Null
  THEN /\ last' = Call("createAccount", <<chainFamily, name>>, err("WALLET_LOCKED"))
       /\ UNCHANGED <<keyringVars, exported, b58, walletVars>>
  ELSE IF chainFamily = ChainFamilyEVM
  THEN /\ LET account == createEvmAccountFromHDKey(
                           deriveEvmKey(hdWallet, nextEvmIndex), nextEvmIndex, name, id, now)
          IN /\ evmAccounts' = MapSet(evmAccounts, toLowerCase(account.address), account)
             /\ last' = Call("createAccount", <<chainFamily, name>>, ok(<<account>>))
       /\ nextEvmIndex' = nextEvmIndex + 1
       /\ UNCHANGED <<mnemonic, hdWallet, solanaAccounts, nextSolanaIndex, exported, b58, walletVars>>
  ELSE IF chainFamily = ChainFamilySOLANA
  THEN /\ LET account == createSolanaAccountFromHDKey(
                           deriveSolanaKey(hdWallet, nextSolanaIndex), nextSolanaIndex,
                           name, id, now)
          IN /\ solanaAccounts' = MapSet(solanaAccounts, account.address, account)
             /\ last' = Call("createAccount", <<chainFamily, name>>, ok(<<account>>))
       /\ nextSolanaIndex' = nextSolanaIndex + 1
       /\ UNCHANGED <<mnemonic, hdWallet, evmAccounts, nextEvmIndex, exported, b58, walletVars>>
  ELSE /\ last' = Call("createAccount", <<chainFamily, name>>, err("INVALID_INPUT"))
       /\ UNCHANGED <<keyringVars, exported, b58, walletVars>>

\* getAccounts()
getAccounts == MapValues(evmAccounts) \o MapValues(solanaAccounts)

\* getAccountsByChainFamily(chainFamily)
getAccountsByChainFamily(chainFamily) ==
  IF chainFamily = ChainFamilyEVM THEN MapValues(evmAccounts)
  ELSE IF chainFamily = ChainFamilySOLANA THEN MapValues(solanaAccounts)
  ELSE <<>>

\* a getAccount(address) that looks the address up as it is spelled
getAccount_ExactCase(address) ==
  IF Len(MapGet(evmAccounts, address)) > 0
  THEN MapGet(evmAccounts, address)
  ELSE IF Len(MapGet(solanaAccounts, address)) > 0
  THEN MapGet(solanaAccounts, address)
  ELSE <<>>

\* getAccount(address): <<account>>, or <<>> for null
getAccount(address) ==
  IF Len(MapGet(evmAccounts, toLowerCase(address))) > 0
  THEN MapGet(evmAccounts, toLowerCase(address))
  ELSE IF Len(MapGet(solanaAccounts, address)) > 0
  THEN MapGet(solanaAccounts, address)
  ELSE <<>>

\* the three lookups as calls: what each returns is kept as the value of the call
GetAccounts ==
  /\ last' = Call("getAccounts", <<>>, ok(getAccounts))
  /\ UNCHANGED <<keyringVars, exported, b58, walletVars>>

GetAccountsByChainFamily(chainFamily) ==
  /\ last' = Call("getAccountsByChainFamily", <<chainFamily>>,
                  ok(getAccountsByChainFamily(chainFamily)))
  /\ UNCHANGED <<keyringVars, exported, b58, walletVars>>

GetAccount(address) ==
  /\ last' = Call("getAccount", <<address>>, ok(getAccount(address)))
  /\ UNCHANGED <<keyringVars, exported, b58, walletVars>>

\* a getPrivateKey that decides "locked" by the keyring's lock state
getPrivateKey_ByLockState(address) ==
  IF ~isUnlocked THEN err("WALLET_LOCKED")
  ELSE IF Len(getAccount(address)) = 0 THEN err("ACCOUNT_NOT_FOUND")
  ELSE ok(<<getAccount(address)[1].privateKey>>)

\* getPrivateKey(address), as a Result
getPrivateKey(address) ==
  IF Len(getAccount(address)) = 0 THEN err("ACCOUNT_NOT_FOUND")
  ELSE IF ~Truthy(getAccount(address)[1].privateKey) THEN err("WALLET_LOCKED")
  ELSE ok(<<getAccount(address)[1].privateKey>>)

GetPrivateKey(address) ==
  /\ last' = Call("getPrivateKey", <<address>>, getPrivateKey(address))
  /\ UNCHANGED <<keyringVars, exported, b58, walletVars>>

\* a destroy() that clears the maps and keeps the counters
Destroy_KeepCounters ==
  /\ lock
  /\ evmAccounts' = EmptyMap
  /\ solanaAccounts' = EmptyMap
  /\ UNCHANGED <<nextEvmIndex, nextSolanaIndex>>
  /\ last' = Call("destroy", <<>>, ok(<<>>))
  /\ UNCHANGED <<exported, b58, walletVars>>

\* destroy()
Destroy ==
  /\ lock
  /\ evmAccounts' = EmptyMap
  /\ solanaAccounts' = EmptyMap
  /\ nextEvmIndex' = 0
  /\ nextSolanaIndex' = 0
  /\ last' = Call("destroy", <<>>, ok(<<>>))
  /\ UNCHANGED <<exported, b58, walletVars>>

\* export(password), with the salt and the nonce the random source returns
Export(password, salt, iv) ==
  IF mnemonic = Null
  THEN /\ last' = Call("export", <<password>>, err("WALLET_LOCKED"))
       /\ UNCHANGED <<keyringVars, exported, b58, walletVars>>
  ELSE LET data == [ mnemonic        |-> mnemonic,
                     evmAccounts     |-> MapValues(evmAccounts),
                     solanaAccounts  |-> MapValues(solanaAccounts),
                     nextEvmIndex    |-> nextEvmIndex,
                     nextSolanaIndex |-> nextSolanaIndex ]
           key == deriveKeyPbkdf2(password, salt, DEFAULT_PBKDF2_ITERATIONS,
                                  DEFAULT_PBKDF2_KEYLENGTH)
           envelope == [ version   |-> 1,
                         kdf       |-> [ algorithm  |-> KdfPBKDF2,
                                         iterations |-> DEFAULT_PBKDF2_ITERATIONS,
                                         salt       |-> Base64Encode(salt),
                                         keyLength  |-> DEFAULT_PBKDF2_KEYLENGTH ],
                         encrypted |-> encryptJson(data, key, iv) ]
       IN /\ last' = Call("export", <<password>>, ok(<<envelope>>))
          /\ exported' = <<[envelope |-> envelope, password |-> password,
                            snapshot |-> KeyringSnapshot]>>
          /\ UNCHANGED <<keyringVars, b58, walletVars>>

\* the envelopes a caller can hand to import: the one export returned, and that
\* envelope with one part changed on the way through storage
Alterations == {"none", "ciphertext", "salt", "kdf-scrypt", "kdf-unknown"}

Alter(envelope, how) ==
  CASE how = "none" -> envelope
    [] how = "ciphertext" ->
         [envelope EXCEPT !.encrypted.ciphertext =
            Base64Encode([Base64Decode(@) EXCEPT !.intact = FALSE])]
    [] how = "iv" -> [envelope EXCEPT !.encrypted.iv = Base64Encode(Append(Base64Decode(@), "flipped"))]
    [] how = "salt" -> [envelope EXCEPT !.kdf.salt = Base64Encode(Append(Base64Decode(@), "flipped"))]
    [] how = "iterations" -> [envelope EXCEPT !.kdf.iterations = @ + 1]
    [] how = "keyLength" -> [envelope EXCEPT !.kdf.keyLength = 16]
    [] how = "kdf-scrypt" -> [envelope EXCEPT !.kdf.algorithm = KdfSCRYPT]
    [] how = "kdf-unknown" -> [envelope EXCEPT !.kdf.algorithm = "argon2id"]
    [] how = "cipher-unknown" -> [envelope EXCEPT !.encrypted.algorithm = "chacha20-poly1305"]

\* the EVM map rebuilt under the addresses as spelled, not lower-cased
RECURSIVE MapFromEvmArray_ExactCase(_, _)

MapFromEvmArray_ExactCase(accounts, n) ==
  IF n = 0 THEN EmptyMap
  ELSE MapSet(MapFromEvmArray_ExactCase(accounts, n - 1), accounts[n].address, accounts[n])

\* Map built by clear() and one set() per element of the array
RECURSIVE MapFromEvmArray(_, _)

MapFromEvmArray(accounts, n) ==
  IF n = 0 THEN EmptyMap
  ELSE MapSet(MapFromEvmArray(accounts, n - 1), toLowerCase(accounts[n].address), accounts[n])

\* the Solana map filled without clear(): the imported accounts join those present
RECURSIVE MapFromSolanaArray_NoClear(_, _)

MapFromSolanaArray_NoClear(accounts, n) ==
  IF n = 0 THEN solanaAccounts
  ELSE MapSet(MapFromSolanaArray_NoClear(accounts, n - 1), accounts[n].address, accounts[n])

RECURSIVE MapFromSolanaArray(_, _)

MapFromSolanaArray(accounts, n) ==
  IF n = 0 THEN EmptyMap
  ELSE MapSet(MapFromSolanaArray(accounts, n - 1), accounts[n].address, accounts[n])

\* an import that empties the account maps before it decrypts
Import_ClearsFirst(stored, how, password) ==
  IF stored.kdf.algorithm # KdfPBKDF2
  THEN /\ last' = Call("import", <<how, password>>, err("INVALID_INPUT"))
       /\ UNCHANGED <<keyringVars, exported, b58, walletVars>>
  ELSE LET key == deriveKeyPbkdf2(password, Base64Decode(stored.kdf.salt),
                                  stored.kdf.iterations, stored.kdf.keyLength)
           decrypted == decryptJson(stored.encrypted, key)
       IN IF Len(decrypted) = 0
          THEN /\ evmAccounts' = EmptyMap
               /\ solanaAccounts' = EmptyMap
               /\ last' = Call("import", <<how, password>>, err("DECRYPTION_FAILED"))
               /\ UNCHANGED <<mnemonic, hdWallet, nextEvmIndex, nextSolanaIndex,
                              exported, b58, walletVars>>
          ELSE LET data == decrypted[1]
               IN /\ mnemonic' = data.mnemonic
                  /\ hdWallet' = HDWalletFromMnemonic(data.mnemonic)
                  /\ nextEvmIndex' = data.nextEvmIndex
                  /\ nextSolanaIndex' = data.nextSolanaIndex
                  /\ evmAccounts' = MapFromEvmArray(data.evmAccounts, Len(data.evmAccounts))
                  /\ solanaAccounts' =
                       MapFromSolanaArray(data.solanaAccounts, Len(data.solanaAccounts))
                  /\ last' = Call("import", <<how, password>>, ok(<<>>))
                  /\ UNCHANGED <<exported, b58, walletVars>>

\* import(stored, password)
Import(stored, how, password) ==
  IF stored.kdf.algorithm # KdfPBKDF2
  THEN /\ last' = Call("import", <<how, password>>, err("INVALID_INPUT"))
       /\ UNCHANGED <<keyringVars, exported, b58, walletVars>>
  ELSE LET key == deriveKeyPbkdf2(password, Base64Decode(stored.kdf.salt),
                                  stored.kdf.iterations, stored.kdf.keyLength)
           decrypted == decryptJson(stored.encrypted, key)
       IN IF Len(decrypted) = 0
          THEN /\ last' = Call("import", <<how, password>>, err("DECRYPTION_FAILED"))
               /\ UNCHANGED <<keyringVars, exported, b58, walletVars>>
          ELSE LET data == decrypted[1]
               IN /\ mnemonic' = data.mnemonic
                  /\ hdWallet' = HDWalletFromMnemonic(data.mnemonic)
                  /\ nextEvmIndex' = data.nextEvmIndex
                  /\ nextSolanaIndex' = data.nextSolanaIndex
                  /\ evmAccounts' = MapFromEvmArray(data.evmAccounts, Len(data.evmAccounts))
                  /\ solanaAccounts' =
                       MapFromSolanaArray(data.solanaAccounts, Len(data.solanaAccounts))
                  /\ last' = Call("import", <<how, password>>, ok(<<>>))
                  /\ UNCHANGED <<exported, b58, walletVars>>

(* ---------------------------------------------------------------------- *)
(* Base58 codec of the Solana account module                               *)
(* A BigInt is the big-endian sequence of its base-256 digits, without     *)
(* leading zero digits; 0n is the empty sequence.                          *)
(* ---------------------------------------------------------------------- *)

BASE58_ALPHABET ==
  <<
     "1", "2", "3", "4", "5", "6", "7", "8", "9", "A", "B", "C",
     "D", "E", "F", "G", "H", "J", "K", "L", "M", "N", "P", "Q",
     "R", "S", "T", "U", "V", "W", "X", "Y", "Z", "a", "b", "c",
     "d", "e", "f", "g", "h", "i", "j", "k", "m", "n", "o", "p",
     "q", "r", "s", "t", "u", "v", "w", "x", "y", "z"
  >>

\* String.prototype.indexOf on the alphabet: 0-based, -1 when absent
AlphabetIndexOf(char) ==
  IF \E i \in DOMAIN BASE58_ALPHABET : BASE58_ALPHABET[i] = char
  THEN (CHOOSE i \in DOMAIN BASE58_ALPHABET : BASE58_ALPHABET[i] = char) - 1
  ELSE -1

RECURSIVE StripLeadingZeros(_)

StripLeadingZeros(digits) ==
  IF digits = <<>> THEN <<>>
  ELSE IF Head(digits) = 0 THEN StripLeadingZeros(Tail(digits))
  ELSE digits

\* BigInt('0x' + hex of the bytes)
BigFromBytes(bytes) == StripLeadingZeros(bytes)

\* long division of the digits by 58: quotient digits (unstripped) and remainder
RECURSIVE BigDivStep(_, _, _)

BigDivStep(digits, carry, quotient) ==
  IF digits = <<>> THEN [quotient |-> quotient, remainder |-> carry]
  ELSE BigDivStep(Tail(digits), (carry * 256 + Head(digits)) % 58,
                  Append(quotient, (carry * 256 + Head(digits)) \div 58))

\* value / 58n
BigDiv58(value) == StripLeadingZeros(BigDivStep(value, 0, <<>>).quotient)

\* Number(value % 58n)
BigMod58(value) == BigDivStep(value, 0, <<>>).remainder

\* value * 58n + BigInt(index), digit by digit from the least significant one
RECURSIVE BigMulAddStep(_, _)

BigMulAddStep(digits, carry) ==
  IF digits = <<>>
  THEN IF carry = 0 THEN <<>> ELSE <<carry>>
  ELSE Append(BigMulAddStep(SubSeq(digits, 1, Len(digits) - 1),
                            (digits[Len(digits)] * 58 + carry) \div 256),
              (digits[Len(digits)] * 58 + carry) % 256)

BigMul58Add(value, index) == StripLeadingZeros(BigMulAddStep(value, index))

\* the while loop of encodeBase58: chars.unshift per remainder until value is 0n
RECURSIVE EncodeDigits(_)

EncodeDigits(value) ==
  IF value = <<>> THEN <<>>
  ELSE Append(EncodeDigits(BigDiv58(value)), BASE58_ALPHABET[BigMod58(value) + 1])

\* number of leading elements of seq equal to x (the for ... break loops)
RECURSIVE LeadingCount(_, _)

LeadingCount(seq, x) ==
  IF seq = <<>> THEN 0
  ELSE IF Head(seq) = x THEN 1 + LeadingCount(Tail(seq), x)
  ELSE 0

Repeat(x, n) == [i \in 1..n |-> x]

\* encodeBase58(bytes): the string as the sequence of its characters
encodeBase58(bytes) ==
  IF Len(bytes) = 0 THEN <<>>
  ELSE Repeat(BASE58_ALPHABET[1], LeadingCount(bytes, 0)) \o EncodeDigits(BigFromBytes(bytes))

\* the accumulation loop of decodeBase58 (value is computed before the next character)
RECURSIVE DecodeValue(_, _)

DecodeValue(str, value) ==
  IF str = <<>> \/ Len(value) < 0 THEN value
  ELSE DecodeValue(Tail(str), BigMul58Add(value, AlphabetIndexOf(Head(str))))

\* value.toString(16), padded to an even number of digits, as bytes: 0n gives '00'
BigToBytes(value) == IF value = <<>> THEN <<0>> ELSE value

\* decodeBase58(str): <<bytes>>, or <<>> when it throws on a character outside the alphabet
decodeBase58(str) ==
  IF Len(str) = 0 THEN << <<>> >>
  ELSE IF \E i \in DOMAIN str : AlphabetIndexOf(str[i]) = -1 THEN <<>>
  ELSE << Repeat(0, LeadingCount(str, BASE58_ALPHABET[1])) \o BigToBytes(DecodeValue(str, <<>>)) >>

\* isValidSolanaAddress(address)
isValidSolanaAddress(address) ==
  IF Len(decodeBase58(address)) = 0 THEN FALSE
  ELSE Len(decodeBase58(address)[1]) = 32

(* ---------------------------------------------------------------------- *)
(* Base58 codec run: encode a byte array, decode the string, validate it   *)
(* ---------------------------------------------------------------------- *)

ByteValues == {0, 1, 57, 58, 255}

\* 32-byte public keys: the all-zero key (the System Program id), keys with leading
\* zero bytes, and keys without
PublicKeys ==
  { Repeat(0, 32),
    Repeat(0, 31) \o <<1>>,
    <<0>> \o Repeat(255, 31),
    Repeat(255, 32),
    <<1>> \o Repeat(0, 31) }

ByteArrays == UNION {[1..n -> ByteValues] : n \in 0..MaxLen} \cup PublicKeys

Base58Idle == [pc |-> "idle", bytes |-> <<>>, str |-> <<>>, out |-> <<>>, valid |-> FALSE]

Base58Encode ==
  /\ b58.pc = "input"
  /\ b58' = [b58 EXCEPT !.pc = "encoded", !.str = encodeBase58(b58.bytes)]
  /\ UNCHANGED <<keyringVars, exported, last, walletVars>>

Base58Decode ==
  /\ b58.pc = "encoded"
  /\ b58' = [b58 EXCEPT !.pc = "decoded", !.out = decodeBase58(b58.str)]
  /\ UNCHANGED <<keyringVars, exported, last, walletVars>>

Base58Validate ==
  /\ b58.pc = "decoded"
  /\ b58' = [b58 EXCEPT !.pc = "validated", !.valid = isValidSolanaAddress(b58.str)]
  /\ UNCHANGED <<keyringVars, exported, last, walletVars>>

(* ---------------------------------------------------------------------- *)
(* Alias registry (wallet-core/alias-registry)                             *)
(* A string is the sequence of its characters; a Record<string, string> is *)
(* a function whose domain is the set of its own keys.                     *)
(* ---------------------------------------------------------------------- *)

ALIAS_REGISTRY_STORAGE_KEY == "wallet:aliases"

\* the characters \s matches, among those of the aliases tried
Whitespace == {" ", "\t"}

\* String.prototype.toLowerCase, over the letters of the aliases tried
stringToLowerCase(str) ==
  LET upper == <<"A", "B", "M">>
      lower == <<"a", "b", "m">>
  IN [ i \in DOMAIN str |->
         IF \E j \in DOMAIN upper : upper[j] = str[i]
         THEN lower[CHOOSE j \in DOMAIN upper : upper[j] = str[i]]
         ELSE str[i] ]

\* String.prototype.trim
RECURSIVE trim(_)

trim(str) ==
  IF Len(str) > 0 /\ Head(str) \in Whitespace THEN trim(Tail(str))
  ELSE IF Len(str) > 0 /\ str[Len(str)] \in Whitespace
  THEN trim(SubSeq(str, 1, Len(str) - 1))
  ELSE str

\* replace(/\s+/g, ' '): every run of whitespace becomes one space
RECURSIVE collapseWhitespace(_)

collapseWhitespace(str) ==
  IF Len(str) = 0 THEN <<>>
  ELSE IF Head(str) \in Whitespace /\ Len(str) > 1 /\ str[2] \in Whitespace
  THEN collapseWhitespace(Tail(str))
  ELSE IF Head(str) \in Whitespace THEN <<" ">> \o collapseWhitespace(Tail(str))
  ELSE <<Head(str)>> \o collapseWhitespace(Tail(str))

\* normalizeAlias(raw)
normalizeAlias(raw) == stringToLowerCase(collapseWhitespace(trim(raw)))

ALIAS_MAX_LENGTH == 40

\* validateAlias(raw): Result<string>
validateAlias(raw) ==
  LET normalized == normalizeAlias(raw)
  IN IF Len(normalized) = 0 THEN err("INVALID_INPUT")
     ELSE IF Len(normalized) > ALIAS_MAX_LENGTH THEN err("INVALID_INPUT")
     ELSE ok(<<normalized>>)

\* record[key]: <<value>>, or <<>> for undefined
RecordGet(record, key) == IF key \in DOMAIN record THEN <<record[key]>> ELSE <<>>

\* record[key] = value
RecordSet(record, key, value) ==
  [k \in DOMAIN record \cup {key} |-> IF k = key THEN value ELSE record[k]]

\* delete record[key]
RecordDelete(record, key) == [k \in DOMAIN record \ {key} |-> record[k]]

\* {} as a Record<string, string> is the function of no key
EMPTY_REGISTRY ==
  [aliasToWalletId |-> [key \in {} |-> key], walletIdToAlias |-> [key \in {} |-> key]]

\* loadAliasRegistry(storage)
loadAliasRegistry(store) ==
  IF Len(store[ALIAS_REGISTRY_STORAGE_KEY]) = 0
  THEN EMPTY_REGISTRY
  ELSE store[ALIAS_REGISTRY_STORAGE_KEY][1]

\* saveAliasRegistry(storage, registry): the storage after the set
saveAliasRegistry(store, registry) ==
  [store EXCEPT ![ALIAS_REGISTRY_STORAGE_KEY] = <<registry>>]

\* a reserveAlias that does not look at the current owner of the alias
reserveAlias_NoOwnerCheck(store, walletId, rawAlias) ==
  LET validated == validateAlias(rawAlias)
  IN
  IF ~validated.ok
  THEN [storage |-> store, result |-> validated]
  ELSE LET normalized == validated.value[1]
           registry == loadAliasRegistry(store)
           previousAlias == RecordGet(registry.walletIdToAlias, walletId)
           aliasToWalletId ==
             IF Len(previousAlias) > 0 /\ Len(previousAlias[1]) > 0
                /\ previousAlias[1] # normalized
             THEN RecordDelete(registry.aliasToWalletId, previousAlias[1])
             ELSE registry.aliasToWalletId
       IN [ storage |-> saveAliasRegistry(store,
                          [ aliasToWalletId |-> RecordSet(aliasToWalletId, normalized, walletId),
                            walletIdToAlias |->
                              RecordSet(registry.walletIdToAlias, walletId, normalized) ]),
            result |-> ok(<<normalized>>) ]

\* reserveAlias(storage, walletId, rawAlias): the storage after the call and
\* the Result
reserveAlias(store, walletId, rawAlias) ==
  LET validated == validateAlias(rawAlias)
  IN
  IF ~validated.ok
  THEN [storage |-> store, result |-> validated]
  ELSE LET normalized == validated.value[1]
           registry == loadAliasRegistry(store)
           currentOwner == RecordGet(registry.aliasToWalletId, normalized)
           previousAlias == RecordGet(registry.walletIdToAlias, walletId)
           aliasToWalletId ==
             IF Len(previousAlias) > 0 /\ Len(previousAlias[1]) > 0
                /\ previousAlias[1] # normalized
             THEN RecordDelete(registry.aliasToWalletId, previousAlias[1])
             ELSE registry.aliasToWalletId
       IN IF Len(currentOwner) > 0 /\ currentOwner[1] # "" /\ currentOwner[1] # walletId
          THEN [storage |-> store, result |-> err("ALIAS_ALREADY_EXISTS")]
          ELSE [ storage |-> saveAliasRegistry(store,
                   [ aliasToWalletId |-> RecordSet(aliasToWalletId, normalized, walletId),
                     walletIdToAlias |->
                       RecordSet(registry.walletIdToAlias, walletId, normalized) ]),
                 result |-> ok(<<normalized>>) ]

\* a releaseAlias that deletes the entry of the wallet and leaves that of the alias
releaseAlias_OneMap(store, walletId) ==
  LET registry == loadAliasRegistry(store)
      alias == RecordGet(registry.walletIdToAlias, walletId)
  IN IF Len(alias) = 0 \/ Len(alias[1]) = 0
     THEN store
     ELSE saveAliasRegistry(store,
            [ aliasToWalletId |-> registry.aliasToWalletId,
              walletIdToAlias |-> RecordDelete(registry.walletIdToAlias, walletId) ])

\* releaseAlias(storage, walletId): the storage after the call
releaseAlias(store, walletId) ==
  LET registry == loadAliasRegistry(store)
      alias == RecordGet(registry.walletIdToAlias, walletId)
  IN IF Len(alias) = 0 \/ Len(alias[1]) = 0
     THEN store
     ELSE saveAliasRegistry(store,
            [ aliasToWalletId |-> RecordDelete(registry.aliasToWalletId, alias[1]),
              walletIdToAlias |-> RecordDelete(registry.walletIdToAlias, walletId) ])

(* ---------------------------------------------------------------------- *)
(* The Keyring a wallet owns, as a value: the operations of the Keyring     *)
(* section on a record of the six fields, returning the keyring after the   *)
(* call and the Result                                                      *)
(* ---------------------------------------------------------------------- *)

\* new Keyring()
NewKeyring ==
  [ mnemonic        |-> Null,
    hdWallet        |-> Null,
    evmAccounts     |-> EmptyMap,
    solanaAccounts  |-> EmptyMap,
    nextEvmIndex    |-> 0,
    nextSolanaIndex |-> 0 ]

\* keyring.createAccount(chainFamily, name), with the id and the time drawn
keyringCreateAccount(keyring, chainFamily, name, id, now) ==
  IF keyring.hdWallet = Null
  THEN [keyring |-> keyring, result |-> err("WALLET_LOCKED")]
  ELSE IF chainFamily = ChainFamilyEVM
  THEN LET account == createEvmAccountFromHDKey(
                        deriveEvmKey(keyring.hdWallet, keyring.nextEvmIndex),
                        keyring.nextEvmIndex, name, id, now)
       IN [ keyring |-> [keyring EXCEPT
                           !.evmAccounts = MapSet(@, toLowerCase(account.address), account),
                           !.nextEvmIndex = @ + 1],
            result |-> ok(<<account>>) ]
  ELSE IF chainFamily = ChainFamilySOLANA
  THEN LET account == createSolanaAccountFromHDKey(
                        deriveSolanaKey(keyring.hdWallet, keyring.nextSolanaIndex),
                        keyring.nextSolanaIndex, name, id, now)
       IN [ keyring |-> [keyring EXCEPT
                           !.solanaAccounts = MapSet(@, account.address, account),
                           !.nextSolanaIndex = @ + 1],
            result |-> ok(<<account>>) ]
  ELSE [keyring |-> keyring, result |-> err("INVALID_INPUT")]

\* keyring.getAccount(address): <<account>>, or <<>> for null
keyringGetAccount(keyring, address) ==
  IF Len(MapGet(keyring.evmAccounts, toLowerCase(address))) > 0
  THEN MapGet(keyring.evmAccounts, toLowerCase(address))
  ELSE IF Len(MapGet(keyring.solanaAccounts, address)) > 0
  THEN MapGet(keyring.solanaAccounts, address)
  ELSE <<>>

\* keyring.getPrivateKey(address)
keyringGetPrivateKey(keyring, address) ==
  LET account == keyringGetAccount(keyring, address)
  IN IF Len(account) = 0 THEN err("ACCOUNT_NOT_FOUND")
     ELSE IF ~Truthy(account[1].privateKey) THEN err("WALLET_LOCKED")
     ELSE ok(<<account[1].privateKey>>)

\* keyring.export(password): Result<StoredKeyring>
keyringExport(keyring, password, salt, iv) ==
  IF keyring.mnemonic = Null
  THEN err("WALLET_LOCKED")
  ELSE LET data == [ mnemonic        |-> keyring.mnemonic,
                     evmAccounts     |-> MapValues(keyring.evmAccounts),
                     solanaAccounts  |-> MapValues(keyring.solanaAccounts),
                     nextEvmIndex    |-> keyring.nextEvmIndex,
                     nextSolanaIndex |-> keyring.nextSolanaIndex ]
           key == deriveKeyPbkdf2(password, salt, DEFAULT_PBKDF2_ITERATIONS,
                                  DEFAULT_PBKDF2_KEYLENGTH)
       IN ok(<<[ version   |-> 1,
                 kdf       |-> [ algorithm  |-> KdfPBKDF2,
                                 iterations |-> DEFAULT_PBKDF2_ITERATIONS,
                                 salt       |-> Base64Encode(salt),
                                 keyLength  |-> DEFAULT_PBKDF2_KEYLENGTH ],
                 encrypted |-> encryptJson(data, key, iv) ]>>)

\* keyring.import(stored, password)
keyringImport(keyring, stored, password) ==
  IF stored.kdf.algorithm # KdfPBKDF2
  THEN [keyring |-> keyring, result |-> err("INVALID_INPUT")]
  ELSE LET key == deriveKeyPbkdf2(password, Base64Decode(stored.kdf.salt),
                                  stored.kdf.iterations, stored.kdf.keyLength)
           decrypted == decryptJson(stored.encrypted, key)
       IN IF Len(decrypted) = 0
          THEN [keyring |-> keyring, result |-> err("DECRYPTION_FAILED")]
          ELSE [ keyring |->
                   [ mnemonic        |-> decrypted[1].mnemonic,
                     hdWallet        |-> HDWalletFromMnemonic(decrypted[1].mnemonic),
                     evmAccounts     |-> MapFromEvmArray(decrypted[1].evmAccounts,
                                                         Len(decrypted[1].evmAccounts)),
                     solanaAccounts  |-> MapFromSolanaArray(decrypted[1].solanaAccounts,
                                                            Len(decrypted[1].solanaAccounts)),
                     nextEvmIndex    |-> decrypted[1].nextEvmIndex,
                     nextSolanaIndex |-> decrypted[1].nextSolanaIndex ],
                 result |-> ok(<<>>) ]

(* ---------------------------------------------------------------------- *)
(* LocalWallet (wallet-core): BaseWallet and LocalWallet as one object      *)
(* An optional value (a field that may be undefined) is <<>> or <<value>>.  *)
(* Every operation is given as the wallet and the storage after the call    *)
(* and its outcome; the actions below apply them to one of the wallets.     *)
(* ---------------------------------------------------------------------- *)

WALLET_STORAGE_KEY == "wallet"

METADATA_STORAGE_KEY == "wallet:metadata"

WalletStateUNINITIALIZED == "uninitialized"

WalletStateLOCKED == "locked"

WalletStateUNLOCKED == "unlocked"

\* the outcome of a call that rejects with an exception instead of returning a Result
Thrown == [ok |-> FALSE, code |-> "thrown", value |-> <<>>]

\* truthiness of an optional string: undefined and '' are falsy
Defined(optional) == Len(optional) > 0 /\ Len(optional[1]) > 0

\* new LocalWallet(storage): the constructor of BaseWallet, with the id randomUuid()
\* returned and the time
NewWallet(id, now) ==
  [ state    |-> WalletStateUNINITIALIZED,
    metadata |-> [ id           |-> id,
                   name         |-> "My Wallet",
                   type         |-> "local",
                   createdAt    |-> now,
                   lastActiveAt |-> now,
                   alias        |-> <<>> ],
    keyring  |-> NewKeyring,
    password |-> Null ]

\* saveWalletState(): whether it threw, and the storage after it
saveWalletState(wallet, store, salt, iv) ==
  LET exportResult == keyringExport(wallet.keyring, wallet.password, salt, iv)
  IN IF wallet.password = Null \/ wallet.password = ""
     THEN [threw |-> TRUE, storage |-> store]
     ELSE IF ~exportResult.ok
     THEN [threw |-> TRUE, storage |-> store]
     ELSE [ threw |-> FALSE,
            storage |-> [store EXCEPT ![WALLET_STORAGE_KEY] = exportResult.value,
                                      ![METADATA_STORAGE_KEY] = <<wallet.metadata>>] ]

\* an unlock that does not reserve the alias of the metadata again
walletUnlock_NoBackfill(wallet, store, password, now) ==
  LET stored == store[WALLET_STORAGE_KEY]
      alreadyUnlocked == wallet.state = WalletStateUNLOCKED
      imported == keyringImport(wallet.keyring, stored[1], password)
      loaded == IF wallet.state = WalletStateUNINITIALIZED
                   /\ Len(store[METADATA_STORAGE_KEY]) > 0
                THEN store[METADATA_STORAGE_KEY][1]
                ELSE wallet.metadata
      opened == IF alreadyUnlocked THEN wallet
                ELSE [wallet EXCEPT !.keyring = imported.keyring, !.metadata = loaded]
  IN IF ~alreadyUnlocked /\ Len(stored) = 0
     THEN [wallet |-> wallet, storage |-> store, result |-> err("WALLET_NOT_INITIALIZED")]
     ELSE IF ~alreadyUnlocked /\ ~imported.result.ok
     THEN [wallet |-> wallet, storage |-> store, result |-> imported.result]
     ELSE [ wallet |-> [opened EXCEPT !.password = password,
                                      !.state = WalletStateUNLOCKED,
                                      !.metadata.lastActiveAt = now],
            storage |-> store,
            result |-> ok(<<>>) ]

\* unlock(password): the wallet and the storage after the call, and the Result
walletUnlock(wallet, store, password, now) ==
  LET stored == store[WALLET_STORAGE_KEY]
      alreadyUnlocked == wallet.state = WalletStateUNLOCKED
      imported == keyringImport(wallet.keyring, stored[1], password)
      loaded == IF wallet.state = WalletStateUNINITIALIZED
                   /\ Len(store[METADATA_STORAGE_KEY]) > 0
                THEN store[METADATA_STORAGE_KEY][1]
                ELSE wallet.metadata
      opened == IF alreadyUnlocked THEN wallet
                ELSE [wallet EXCEPT !.keyring = imported.keyring, !.metadata = loaded]
      hasAlias == Defined(opened.metadata.alias)
      reserved == reserveAlias(store, opened.metadata.id, opened.metadata.alias[1])
  IN IF ~alreadyUnlocked /\ Len(stored) = 0
     THEN [wallet |-> wallet, storage |-> store, result |-> err("WALLET_NOT_INITIALIZED")]
     ELSE IF ~alreadyUnlocked /\ ~imported.result.ok
     THEN [wallet |-> wallet, storage |-> store, result |-> imported.result]
     ELSE IF hasAlias /\ ~reserved.result.ok
     THEN [wallet |-> opened, storage |-> store, result |-> reserved.result]
     ELSE [ wallet |-> [opened EXCEPT !.password = password,
                                      !.state = WalletStateUNLOCKED,
                                      !.metadata.lastActiveAt = now],
            storage |-> IF hasAlias THEN reserved.storage ELSE store,
            result |-> ok(<<>>) ]

(* ---------------------------------------------------------------------- *)
(* Two LocalWallet objects on one storage, and the alias registry calls     *)
(* ---------------------------------------------------------------------- *)

\* the wallet objects, named by the id randomUuid() gave each at construction
Wallets == {"wallet-a", "wallet-b"}

\* the wallet ids handed to reserveAlias and releaseAlias directly: those of the
\* wallets and one of a wallet kept elsewhere
RegistryWalletIds == Wallets \cup {"wallet-existing"}

\* raw aliases: two spellings of "main", one of "a b", an empty one, a blank one
\* and one of 41 characters
AliasMain == <<"M", "a", "i", "n">>

AliasMainPadded == <<" ", "m", "a", "i", "n", " ">>

AliasTwoWords == <<"A", " ", "\t", "b">>

AliasInputs ==
  { AliasMain, AliasMainPadded, AliasTwoWords, <<>>, <<" ">>,
    [i \in 1..(ALIAS_MAX_LENGTH + 1) |-> "x"] }

\* the default of options.wordCount
DEFAULT_WORD_COUNT == 24

\* InitWalletOptions: a new phrase or a given one (valid or not), without an alias
\* or with one (valid or not), under one of the passwords
InitOptions ==
  { [mnemonic |-> case[1], name |-> <<>>, alias |-> case[2], password |-> case[3]] :
      case \in
        { <<<<>>, <<>>, "pw1">>,
          <<<<>>, <<AliasMain>>, "pw1">>,
          <<<<>>, <<AliasMainPadded>>, "pw2">>,
          <<<<>>, <<<<" ">>>>, "pw1">>,
          <<<<>>, <<[i \in 1..(ALIAS_MAX_LENGTH + 1) |-> "x"]>>, "pw2">> }
        \cup {<<<<phrase>>, <<AliasTwoWords>>, "pw1">> :
                phrase \in generateMnemonic(DEFAULT_WORD_COUNT)}
        \cup {<<<<phrase>>, <<>>, "pw1">> : phrase \in InvalidMnemonics} }

\* the addresses asked of a wallet: the first EVM address of the phrase it is made
\* from, and an address of no wallet
HeldEvmAddress ==
  [ chain |-> ChainFamilyEVM,
    of |-> deriveEvmKey(CHOOSE m \in generateMnemonic(DEFAULT_WORD_COUNT) : TRUE, 0),
    form |-> "checksum" ]

ForeignAddress ==
  [chain |-> ChainFamilyEVM, of |-> deriveEvmKey("some other phrase", 0), form |-> "checksum"]

\* TxRequest, the sender and the chain: an EVM transfer, a Solana transfer, a
\* Solana transfer from an EVM account, and a transfer from a foreign address on a
\* chain of neither family
TxRequests ==
  { [from |-> HeldEvmAddress, chainId |-> "eip155:1"],
    [ from |-> [ chain |-> ChainFamilySOLANA,
                 of |-> deriveSolanaKey(
                          CHOOSE m \in generateMnemonic(DEFAULT_WORD_COUNT) : TRUE, 0),
                 form |-> "exact" ],
      chainId |-> "solana:mainnet" ],
    [from |-> HeldEvmAddress, chainId |-> "solana:mainnet"],
    [from |-> ForeignAddress, chainId |-> "bip122:0"] }

\* what a wallet call is observed to be: the wallet, the operation, its arguments,
\* its outcome, and the state of the wallet and the alias registry when called
WalletCall(w, op, args, result) ==
  [ wallet   |-> w,
    op       |-> op,
    args     |-> args,
    result   |-> result,
    before   |-> IF w \in Wallets THEN wallets[w].state ELSE "",
    registry |-> loadAliasRegistry(storage) ]

\* the wallet w and the storage become what the operation left
Apply(w, op, args, outcome) ==
  /\ wallets' = [wallets EXCEPT ![w] = outcome.wallet]
  /\ storage' = outcome.storage
  /\ called' = WalletCall(w, op, args, outcome.result)
  /\ UNCHANGED <<keyringVars, exported, last, b58>>

\* a call that only reads: the wallet and the storage stay, the Result is returned
Answer(w, op, args, result) ==
  Apply(w, op, args, [wallet |-> wallets[w], storage |-> storage, result |-> result])

\* initialize and createAccount are offered while the counters of the keyring are
\* below the cap
WalletBelowCap(w, cap) ==
  /\ wallets[w].keyring.nextEvmIndex < cap
  /\ wallets[w].keyring.nextSolanaIndex < cap

\* initialize(options), with the phrase generated, the id, the time, the salt and
\* the nonce drawn
WalletInitialize(w, options) ==
  \E generated \in generateMnemonic(DEFAULT_WORD_COUNT), id \in Uuids, now \in Timestamps,
     salt \in Salts, iv \in Nonces :
    LET wallet == wallets[w]
        restoring == Defined(options.mnemonic)
        valid == validateMnemonic(options.mnemonic[1])
        phrase == IF restoring THEN options.mnemonic[1] ELSE generated
        fresh == [wallet.keyring EXCEPT !.mnemonic = phrase,
                                        !.hdWallet = HDWalletFromMnemonic(phrase)]
        withEvm == keyringCreateAccount(fresh, ChainFamilyEVM, Undefined, id, now).keyring
        withBoth ==
          keyringCreateAccount(withEvm, ChainFamilySOLANA, Undefined, id, now).keyring
        named == [wallet EXCEPT
                    !.keyring = withBoth,
                    !.metadata.name = IF Defined(options.name) THEN options.name[1] ELSE @]
        hasAlias == Defined(options.alias)
        reserved == reserveAlias(storage, wallet.metadata.id, options.alias[1])
        aliased == [named EXCEPT
                      !.metadata.alias = IF hasAlias THEN <<trim(options.alias[1])>> ELSE @,
                      !.password = options.password]
        saved == saveWalletState(aliased, IF hasAlias THEN reserved.storage ELSE storage,
                                 salt, iv)
    IN Apply(w, "initialize", <<options>>,
         IF wallet.state # WalletStateUNINITIALIZED
         THEN [wallet |-> wallet, storage |-> storage, result |-> err("INVALID_INPUT")]
         ELSE IF restoring /\ ~valid
         THEN [wallet |-> wallet, storage |-> storage, result |-> err("INVALID_MNEMONIC")]
         ELSE IF hasAlias /\ ~reserved.result.ok
         THEN [wallet |-> named, storage |-> storage, result |-> reserved.result]
         ELSE IF saved.threw
         THEN [wallet |-> aliased, storage |-> saved.storage, result |-> err("UNKNOWN")]
         ELSE [ wallet |-> [aliased EXCEPT !.state = WalletStateUNLOCKED],
                storage |-> saved.storage,
                result |-> ok(<<>>) ])

WalletUnlock(w, password) ==
  \E now \in Timestamps :
    Apply(w, "unlock", <<password>>, walletUnlock(wallets[w], storage, password, now))

\* lock(): LocalWallet.lock and BaseWallet.lock
WalletLock(w) ==
  Apply(w, "lock", <<>>,
        [ wallet |-> [wallets[w] EXCEPT
                        !.password = Null,
                        !.keyring = [@ EXCEPT !.mnemonic = Null,
                                              !.hdWallet = Null,
                                              !.evmAccounts = BlankEvm(@),
                                              !.solanaAccounts = BlankSolana(@)],
                        !.state = WalletStateLOCKED],
          storage |-> storage,
          result |-> ok(<<>>) ])

\* getAccounts()
WalletGetAccounts(w) ==
  Answer(w, "getAccounts", <<>>,
         IF wallets[w].state # WalletStateUNLOCKED THEN err("WALLET_LOCKED")
         ELSE ok(MapValues(wallets[w].keyring.evmAccounts)
                   \o MapValues(wallets[w].keyring.solanaAccounts)))

\* getAccount(address)
WalletGetAccount(w, address) ==
  Answer(w, "getAccount", <<address>>,
         IF wallets[w].state # WalletStateUNLOCKED THEN err("WALLET_LOCKED")
         ELSE ok(keyringGetAccount(wallets[w].keyring, address)))

\* createAccount(options), with the id, the time, the salt and the nonce drawn
WalletCreateAccount(w, options) ==
  \E id \in Uuids, now \in Timestamps, salt \in Salts, iv \in Nonces :
    LET wallet == wallets[w]
        created ==
          keyringCreateAccount(wallet.keyring, options.chainFamily, options.name, id, now)
        saved == saveWalletState([wallet EXCEPT !.keyring = created.keyring], storage, salt, iv)
    IN Apply(w, "createAccount", <<options>>,
         IF wallet.state # WalletStateUNLOCKED
         THEN [wallet |-> wallet, storage |-> storage, result |-> err("WALLET_LOCKED")]
         ELSE IF ~created.result.ok
         THEN [wallet |-> wallet, storage |-> storage, result |-> created.result]
         ELSE [ wallet |-> [wallet EXCEPT !.keyring = created.keyring],
                storage |-> saved.storage,
                result |-> IF saved.threw THEN Thrown ELSE created.result ])

\* signTransaction(request), with what building and signing through the chain
\* client comes to
WalletSignTransaction(w, request) ==
  \E outcome \in {ok(<<"done">>), err("RPC_ERROR")} :
    LET keyring == wallets[w].keyring
        privateKeyResult == keyringGetPrivateKey(keyring, request.from)
    IN Answer(w, "signTransaction", <<request>>,
         IF wallets[w].state # WalletStateUNLOCKED THEN err("WALLET_LOCKED")
         ELSE IF ~privateKeyResult.ok THEN privateKeyResult
         ELSE IF request.chainId = "eip155:1" THEN outcome
         ELSE IF request.chainId = "solana:mainnet"
         THEN IF ~outcome.ok THEN outcome
              ELSE IF keyringGetAccount(keyring, request.from)[1].chainFamily
                        # ChainFamilySOLANA
              THEN err("ACCOUNT_NOT_FOUND")
              ELSE outcome
         ELSE err("INVALID_INPUT"))

\* signMessage(address, message)
WalletSignMessage(w, address) ==
  LET keyring == wallets[w].keyring
      privateKeyResult == keyringGetPrivateKey(keyring, address)
  IN Answer(w, "signMessage", <<address>>,
       IF wallets[w].state # WalletStateUNLOCKED THEN err("WALLET_LOCKED")
       ELSE IF Len(keyringGetAccount(keyring, address)) = 0 THEN err("ACCOUNT_NOT_FOUND")
       ELSE IF ~privateKeyResult.ok THEN privateKeyResult
       ELSE ok(<<"signature">>))

\* sendTransaction(request), with what building, signing and sending through the
\* chain client comes to
WalletSendTransaction(w, request) ==
  \E outcome \in {ok(<<"done">>), err("RPC_ERROR")} :
    LET keyring == wallets[w].keyring
        privateKeyResult == keyringGetPrivateKey(keyring, request.from)
    IN Answer(w, "sendTransaction", <<request>>,
         IF wallets[w].state # WalletStateUNLOCKED THEN err("WALLET_LOCKED")
         ELSE IF Len(keyringGetAccount(keyring, request.from)) = 0
         THEN err("ACCOUNT_NOT_FOUND")
         ELSE IF ~privateKeyResult.ok THEN privateKeyResult
         ELSE IF request.chainId \in {"eip155:1", "solana:mainnet"} THEN outcome
         ELSE err("INVALID_INPUT"))

\* exportMnemonic(password): unlock(password), then keyring.getMnemonic()
WalletExportMnemonic(w, password) ==
  \E now \in Timestamps :
    LET unlocked == walletUnlock(wallets[w], storage, password, now)
    IN Apply(w, "exportMnemonic", <<password>>,
         [ wallet |-> unlocked.wallet,
           storage |-> unlocked.storage,
           result |-> IF ~unlocked.result.ok THEN err("UNAUTHORIZED")
                      ELSE IF unlocked.wallet.keyring.mnemonic = Null
                      THEN err("WALLET_LOCKED")
                      ELSE ok(<<unlocked.wallet.keyring.mnemonic>>) ])

\* changePassword(currentPassword, newPassword), with the salt and the nonce drawn
WalletChangePassword(w, currentPassword, newPassword) ==
  \E salt \in Salts, iv \in Nonces :
    LET wallet == wallets[w]
        stored == storage[WALLET_STORAGE_KEY]
        saved == saveWalletState([wallet EXCEPT !.password = newPassword], storage, salt, iv)
    IN Apply(w, "changePassword", <<currentPassword, newPassword>>,
         IF Len(stored) = 0
         THEN [wallet |-> wallet, storage |-> storage, result |-> err("WALLET_NOT_INITIALIZED")]
         ELSE IF ~keyringImport(NewKeyring, stored[1], currentPassword).result.ok
         THEN [wallet |-> wallet, storage |-> storage, result |-> err("UNAUTHORIZED")]
         ELSE [ wallet |-> [wallet EXCEPT !.password = newPassword],
                storage |-> saved.storage,
                result |-> IF saved.threw THEN Thrown ELSE ok(<<>>) ])

\* an updateAlias without the check of the wallet state
WalletUpdateAlias_Unchecked(w, newAlias) ==
  \E salt \in Salts, iv \in Nonces :
    LET wallet == wallets[w]
        trimmed == trim(newAlias)
        reserved == reserveAlias(storage, wallet.metadata.id, trimmed)
        cleared == [wallet EXCEPT !.metadata.alias = <<>>]
        aliased == [wallet EXCEPT !.metadata.alias = <<trimmed>>]
        savedCleared ==
          saveWalletState(cleared, releaseAlias(storage, wallet.metadata.id), salt, iv)
        savedAliased == saveWalletState(aliased, reserved.storage, salt, iv)
    IN Apply(w, "updateAlias", <<newAlias>>,
         IF Len(trimmed) = 0
         THEN [ wallet |-> cleared,
                storage |-> savedCleared.storage,
                result |-> IF savedCleared.threw THEN Thrown ELSE ok(<<>>) ]
         ELSE IF ~reserved.result.ok
         THEN [wallet |-> wallet, storage |-> storage, result |-> reserved.result]
         ELSE [ wallet |-> aliased,
                storage |-> savedAliased.storage,
                result |-> IF savedAliased.threw THEN Thrown ELSE ok(<<>>) ])

\* updateAlias(newAlias), with the salt and the nonce drawn
WalletUpdateAlias(w, newAlias) ==
  \E salt \in Salts, iv \in Nonces :
    LET wallet == wallets[w]
        trimmed == trim(newAlias)
        reserved == reserveAlias(storage, wallet.metadata.id, trimmed)
        cleared == [wallet EXCEPT !.metadata.alias = <<>>]
        aliased == [wallet EXCEPT !.metadata.alias = <<trimmed>>]
        savedCleared ==
          saveWalletState(cleared, releaseAlias(storage, wallet.metadata.id), salt, iv)
        savedAliased == saveWalletState(aliased, reserved.storage, salt, iv)
    IN Apply(w, "updateAlias", <<newAlias>>,
         IF wallet.state # WalletStateUNLOCKED
         THEN [wallet |-> wallet, storage |-> storage, result |-> err("WALLET_LOCKED")]
         ELSE IF Len(trimmed) = 0
         THEN [ wallet |-> cleared,
                storage |-> savedCleared.storage,
                result |-> IF savedCleared.threw THEN Thrown ELSE ok(<<>>) ]
         ELSE IF ~reserved.result.ok
         THEN [wallet |-> wallet, storage |-> storage, result |-> reserved.result]
         ELSE [ wallet |-> aliased,
                storage |-> savedAliased.storage,
                result |-> IF savedAliased.threw THEN Thrown ELSE ok(<<>>) ])

\* a destroy that leaves the alias of the wallet in the registry
WalletDestroy_KeepAlias(w) ==
  Apply(w, "destroy", <<>>,
        [ wallet |-> [wallets[w] EXCEPT !.keyring = NewKeyring,
                                        !.state = WalletStateUNINITIALIZED],
          storage |-> [storage EXCEPT ![WALLET_STORAGE_KEY] = <<>>,
                                      ![METADATA_STORAGE_KEY] = <<>>],
          result |-> ok(<<>>) ])

\* destroy(): LocalWallet.destroy and BaseWallet.destroy
WalletDestroy(w) ==
  Apply(w, "destroy", <<>>,
        [ wallet |-> [wallets[w] EXCEPT !.keyring = NewKeyring,
                                        !.state = WalletStateUNINITIALIZED],
          storage |-> [releaseAlias(storage, wallets[w].metadata.id) EXCEPT
                         ![WALLET_STORAGE_KEY] = <<>>,
                         ![METADATA_STORAGE_KEY] = <<>>],
          result |-> ok(<<>>) ])

\* reserveAlias(storage, walletId, rawAlias), called on the registry directly
ReserveAlias(walletId, rawAlias) ==
  /\ LET reserved == reserveAlias(storage, walletId, rawAlias)
     IN /\ storage' = reserved.storage
        /\ called' = WalletCall(walletId, "reserveAlias", <<rawAlias>>, reserved.result)
  /\ UNCHANGED <<keyringVars, exported, last, b58, wallets>>

\* releaseAlias(storage, walletId), called on the registry directly
ReleaseAlias(walletId) ==
  /\ storage' = releaseAlias(storage, walletId)
  /\ called' = WalletCall(walletId, "releaseAlias", <<>>, ok(<<>>))
  /\ UNCHANGED <<keyringVars, exported, last, b58, wallets>>

\* an empty storage, and the wallets as constructed on it
WalletInit ==
  /\ storage = [ key \in {WALLET_STORAGE_KEY, METADATA_STORAGE_KEY,
                          ALIAS_REGISTRY_STORAGE_KEY} |-> <<>> ]
  /\ wallets \in {[w \in Wallets |-> NewWallet(w, now)] : now \in Timestamps}
  /\ called = [ wallet |-> "", op |-> "new", args |-> <<>>, result |-> ok(<<>>),
                before |-> "", registry |-> EMPTY_REGISTRY ]

(* ---------------------------------------------------------------------- *)
(* Specifications                                                          *)
(* ---------------------------------------------------------------------- *)

\* addresses asked of getPrivateKey: the addresses derivable from the given phrases
\* (EVM ones also spelled in upper case) and those of a wallet that is not this one
AddressInputs(phrases, cap) ==
  {[chain |-> ChainFamilyEVM, of |-> deriveEvmKey(m, i), form |-> f] :
     m \in phrases, i \in 0..(cap - 1), f \in {"checksum", "upper"}}
  \cup
  {[chain |-> ChainFamilySOLANA, of |-> deriveSolanaKey(m, i), form |-> f] :
     m \in phrases, i \in 0..(cap - 1), f \in {"exact"}}
  \cup
  { [chain |-> ChainFamilyEVM, of |-> deriveEvmKey("some other phrase", 0), form |-> "checksum"],
    [chain |-> ChainFamilySOLANA, of |-> deriveSolanaKey("some other phrase", 0), form |-> "exact"] }

\* createAccount is offered while the counter of the family is below the cap
BelowCap(chainFamily, cap) ==
  \/ hdWallet = Null
  \/ chainFamily = ChainFamilyEVM /\ nextEvmIndex < cap
  \/ chainFamily = ChainFamilySOLANA /\ nextSolanaIndex < cap
  \/ chainFamily \notin {ChainFamilyEVM, ChainFamilySOLANA}

NextIndexOf(chainFamily) ==
  IF chainFamily = ChainFamilyEVM THEN nextEvmIndex
  ELSE IF chainFamily = ChainFamilySOLANA THEN nextSolanaIndex
  ELSE 0

\* new Keyring()
KeyringInit ==
  /\ mnemonic = Null
  /\ hdWallet = Null
  /\ evmAccounts = EmptyMap
  /\ solanaAccounts = EmptyMap
  /\ nextEvmIndex = 0
  /\ nextSolanaIndex = 0
  /\ exported = <<>>
  /\ last = Call("new", <<>>, ok(<<>>))

Init ==
  /\ KeyringInit
  /\ b58 = Base58Idle
  /\ WalletInit

\* every operation of one keyring, with one valid phrase and the envelope of its
\* latest export
Next ==
  \/ \E wordCount \in {12} : Initialize(wordCount)
  \/ \E phrase \in generateMnemonic(12) \cup InvalidMnemonics : Restore(phrase)
  \/ Lock
  \/ GetMnemonic
  \/ \E chainFamily \in ChainFamilyInputs, id \in Uuids, now \in Timestamps :
       \E name \in AccountNames(NextIndexOf(chainFamily)) :
         /\ BelowCap(chainFamily, MaxStoredIndex)
         /\ CreateAccount(chainFamily, name, id, now)
  \/ \E address \in AddressInputs(generateMnemonic(12), MaxStoredIndex) : GetPrivateKey(address)
  \/ \E password \in Passwords, salt \in Salts, iv \in Nonces : Export(password, salt, iv)
  \/ \E how \in Alterations, password \in Passwords :
       /\ Len(exported) > 0
       /\ Import(Alter(exported[1].envelope, how), how, password)
  \/ Destroy

Spec == Init /\ [][Next]_vars

\* the operations of one keyring other than export and import, with two valid
\* phrases; getAccount is asked for the first address of each phrase and family,
\* a Solana address in lower case too
LifecycleNext ==
  \/ \E wordCount \in WordCounts : Initialize(wordCount)
  \/ \E phrase \in Mnemonics \cup InvalidMnemonics : Restore(phrase)
  \/ Lock
  \/ GetMnemonic
  \/ \E chainFamily \in ChainFamilyInputs, id \in Uuids, now \in Timestamps :
       \E name \in AccountNames(NextIndexOf(chainFamily)) :
         /\ BelowCap(chainFamily, MaxIndex)
         /\ CreateAccount(chainFamily, name, id, now)
  \/ \E address \in AddressInputs(Mnemonics, MaxIndex) : GetPrivateKey(address)
  \/ GetAccounts
  \/ \E chainFamily \in ChainFamilyInputs : GetAccountsByChainFamily(chainFamily)
  \/ \E address \in AddressInputs(Mnemonics, 1) : GetAccount(address)
  \/ \E address \in AddressInputs(Mnemonics, 1) :
       /\ address.chain = ChainFamilySOLANA
       /\ GetAccount(toLowerCase(address))
  \/ Destroy

LifecycleSpec == Init /\ [][LifecycleNext]_vars

Base58Init ==
  /\ KeyringInit
  /\ WalletInit
  /\ b58 \in {[Base58Idle EXCEPT !.pc = "input", !.bytes = bytes] : bytes \in ByteArrays}

Base58Next ==
  \/ Base58Encode
  \/ Base58Decode
  \/ Base58Validate

Base58Spec == Base58Init /\ [][Base58Next]_vars

\* the operations of one wallet that change the wallet or the storage, with the alias
\* registry also called directly for a wallet kept elsewhere
WalletNext ==
  \/ \E options \in InitOptions :
       /\ WalletBelowCap("wallet-a", MaxWalletIndex)
       /\ WalletInitialize("wallet-a", options)
  \/ \E password \in Passwords : WalletUnlock("wallet-a", password)
  \/ WalletLock("wallet-a")
  \/ \E chainFamily \in ChainFamilyInputs,
        name \in AccountNames(wallets["wallet-a"].keyring.nextEvmIndex) :
       /\ WalletBelowCap("wallet-a", MaxWalletIndex)
       /\ WalletCreateAccount("wallet-a", [chainFamily |-> chainFamily, name |-> name])
  \/ \E password \in Passwords : WalletExportMnemonic("wallet-a", password)
  \/ \E currentPassword \in Passwords, newPassword \in Passwords :
       WalletChangePassword("wallet-a", currentPassword, newPassword)
  \/ \E newAlias \in AliasInputs : WalletUpdateAlias("wallet-a", newAlias)
  \/ WalletDestroy("wallet-a")
  \/ \E rawAlias \in AliasInputs : ReserveAlias("wallet-existing", rawAlias)
  \/ ReleaseAlias("wallet-existing")

WalletSpec == Init /\ [][WalletNext]_vars

\* every operation of one wallet that is refused while the wallet is not unlocked,
\* with what brings the wallet into each of its states
WalletCallsNext ==
  \/ \E options \in {o \in InitOptions : o.alias \in {<<>>, <<AliasMain>>}} :
       /\ WalletBelowCap("wallet-a", MaxWalletIndex)
       /\ WalletInitialize("wallet-a", options)
  \/ \E password \in Passwords : WalletUnlock("wallet-a", password)
  \/ WalletLock("wallet-a")
  \/ WalletDestroy("wallet-a")
  \/ WalletGetAccounts("wallet-a")
  \/ \E address \in {HeldEvmAddress, ForeignAddress} : WalletGetAccount("wallet-a", address)
  \/ \E chainFamily \in ChainFamilyInputs,
        name \in AccountNames(wallets["wallet-a"].keyring.nextEvmIndex) :
       /\ WalletBelowCap("wallet-a", MaxWalletIndex)
       /\ WalletCreateAccount("wallet-a", [chainFamily |-> chainFamily, name |-> name])
  \/ \E request \in TxRequests : WalletSignTransaction("wallet-a", request)
  \/ \E address \in {HeldEvmAddress, ForeignAddress} : WalletSignMessage("wallet-a", address)
  \/ \E request \in TxRequests : WalletSendTransaction("wallet-a", request)
  \/ \E newAlias \in {AliasMainPadded, AliasTwoWords, <<>>} :
       WalletUpdateAlias("wallet-a", newAlias)

WalletCallsSpec == Init /\ [][WalletCallsNext]_vars

\* two wallets made on one storage: each is initialized, locked, unlocked and
\* destroyed
TwoWalletNext ==
  \/ \E w \in Wallets, options \in {o \in InitOptions : o.alias \in {<<>>, <<AliasMainPadded>>}} :
       /\ WalletBelowCap(w, MaxWalletIndex)
       /\ WalletInitialize(w, options)
  \/ \E w \in Wallets, password \in Passwords : WalletUnlock(w, password)
  \/ \E w \in Wallets : WalletLock(w)
  \/ \E w \in Wallets : WalletDestroy(w)

TwoWalletSpec == Init /\ [][TwoWalletNext]_vars

\* the alias registry alone: reserveAlias and releaseAlias called one at a time
AliasNext ==
  \/ \E walletId \in RegistryWalletIds, rawAlias \in AliasInputs \cup {<<"s", "a", "v", "e">>} :
       ReserveAlias(walletId, rawAlias)
  \/ \E walletId \in RegistryWalletIds : ReleaseAlias(walletId)

AliasSpec == Init /\ [][AliasNext]_vars

(* ---------------------------------------------------------------------- *)
(* Properties                                                              *)
(* ---------------------------------------------------------------------- *)

\* the values of a Map or array as a set
Range(seq) == {seq[i] : i \in DOMAIN seq}

\* what getAccounts() shows of an account besides its keys
Metadata(accounts) ==
  [i \in DOMAIN accounts |->
     [ address        |-> accounts[i].address,
       name           |-> accounts[i].name,
       chainFamily    |-> accounts[i].chainFamily,
       derivationPath |-> accounts[i].derivationPath,
       index          |-> accounts[i].index ]]

\* C1: a lock() step leaves getAccounts() with the same accounts (address, name,
\* chain family, derivation path, index) and makes getPrivateKey fail with
\* WALLET_LOCKED for the address of every account held before the lock.
C1_LockClearsSecrets ==
  [][ last'.op = "lock" =>
        /\ Metadata(getAccounts') = Metadata(getAccounts)
        /\ \A account \in Range(getAccounts) :
             getPrivateKey(account.address)' = err("WALLET_LOCKED") ]_vars

\* a lock() of an unlocked keyring that holds accounts of both families
C1_Witness ==
  /\ last.op = "lock"
  /\ last.before.unlocked
  /\ Len(evmAccounts) > 0
  /\ Len(solanaAccounts) > 0

\* C4: the accounts of a chain family carry the indices 0, 1, 2, ... in creation
\* order, whatever was created for the other family in between: each map holds
\* index k-1 at position k, and a successful createAccount returns the account whose
\* index is the number of accounts the family had before the call.
C4_IndicesInCreationOrder ==
  /\ [](\A k \in DOMAIN evmAccounts : evmAccounts[k].value.index = k - 1)
  /\ [](\A k \in DOMAIN solanaAccounts : solanaAccounts[k].value.index = k - 1)
  /\ [][ (last'.op = "createAccount" /\ last'.result.ok) =>
           IF last'.args[1] = ChainFamilyEVM
           THEN /\ last'.result.value[1].index = Len(evmAccounts)
                /\ MapValues(evmAccounts') = Append(MapValues(evmAccounts), last'.result.value[1])
           ELSE /\ last'.result.value[1].index = Len(solanaAccounts)
                /\ MapValues(solanaAccounts') =
                     Append(MapValues(solanaAccounts), last'.result.value[1]) ]_vars

\* the second Solana account is created when two EVM accounts exist
C4_Witness ==
  /\ last.op = "createAccount"
  /\ last.result.ok
  /\ last.args[1] = ChainFamilySOLANA
  /\ last.result.value[1].index = 1
  /\ Len(evmAccounts) = 2

\* the address asked for names this account (EVM: in any case; Solana: exactly)
AddressNames(account, address) ==
  /\ account.address.chain = address.chain
  /\ account.address.of = address.of
  /\ account.address.chain = ChainFamilySOLANA => account.address.form = address.form

\* C9: getPrivateKey(address) returns ACCOUNT_NOT_FOUND when the registry holds no
\* account of that address, locked or not; WALLET_LOCKED when it holds one whose key
\* field is blank; and otherwise that account's stored key.
C9_GetPrivateKeyCases ==
  last.op = "getPrivateKey" =>
    LET held == {account \in Range(getAccounts) : AddressNames(account, last.args[1])}
    IN IF held = {} THEN last.result = err("ACCOUNT_NOT_FOUND")
       ELSE \E account \in held :
              IF account.privateKey = EmptyString
              THEN last.result = err("WALLET_LOCKED")
              ELSE last.result = ok(<<account.privateKey>>)

\* getPrivateKey answers WALLET_LOCKED for a blanked account of an unlocked keyring
C9_Witness ==
  /\ last.op = "getPrivateKey"
  /\ last.result.code = "WALLET_LOCKED"
  /\ isUnlocked

\* a keyring as new Keyring() leaves it
Pristine ==
  /\ mnemonic = Null
  /\ hdWallet = Null
  /\ evmAccounts = EmptyMap
  /\ solanaAccounts = EmptyMap
  /\ nextEvmIndex = 0
  /\ nextSolanaIndex = 0

\* C10: destroy() leaves the keyring as a new one (locked, no mnemonic, no HD
\* wallet, empty maps, counters zero); initialize or restore on such a keyring
\* changes neither maps nor counters, and createAccount on empty maps with zero
\* counters returns index 0 for the family asked.
C10_DestroyIsPristine ==
  /\ [][ last'.op = "destroy" => Pristine' ]_vars
  /\ [][ (Pristine /\ last'.op \in {"initialize", "restore"}) =>
           /\ evmAccounts' = EmptyMap
           /\ solanaAccounts' = EmptyMap
           /\ nextEvmIndex' = 0
           /\ nextSolanaIndex' = 0 ]_vars
  /\ [][ (last'.op = "createAccount" /\ last'.result.ok) =>
           /\ (last'.args[1] = ChainFamilyEVM /\ evmAccounts = EmptyMap /\ nextEvmIndex = 0)
                => last'.result.value[1].index = 0
           /\ (last'.args[1] = ChainFamilySOLANA /\ solanaAccounts = EmptyMap
                 /\ nextSolanaIndex = 0)
                => last'.result.value[1].index = 0 ]_vars

\* destroy() of an unlocked keyring that held accounts
C10_Witness ==
  /\ last.op = "destroy"
  /\ last.before.unlocked
  /\ last.before.accounts > 1

\* C2: import of the envelope export(password) returned, unaltered and with the same
\* password, succeeds and leaves mnemonic, EVM and Solana accounts (keys included)
\* and both counters as they were when export was called.
C2_ExportImportRoundTrip ==
  (/\ last.op = "import"
   /\ last.args[1] = "none"
   /\ last.args[2] = exported[1].password)
  => /\ last.result = ok(<<>>)
     /\ KeyringSnapshot = exported[1].snapshot

\* such an import into a keyring that was locked, restoring accounts of both families
C2_Witness ==
  /\ last.op = "import"
  /\ last.result.ok
  /\ ~last.before.unlocked
  /\ Len(evmAccounts) > 0
  /\ Len(solanaAccounts) > 0
  /\ \A account \in Range(getAccounts) : account.privateKey # EmptyString

\* C3: import of an exported envelope (KDF tag as exported) fails with
\* DECRYPTION_FAILED whenever the password is not the one of the export or the
\* ciphertext was altered, and an import that succeeds leaves exactly the
\* exported snapshot.
C3_ImportFailsClosed ==
  last.op = "import" =>
    /\ (last.args[1] \in {"none", "ciphertext"}
         /\ (last.args[2] # exported[1].password \/ last.args[1] = "ciphertext"))
       => last.result = err("DECRYPTION_FAILED")
    /\ last.result.ok => KeyringSnapshot = exported[1].snapshot

\* import of an altered ciphertext under the right password fails with DECRYPTION_FAILED
C3_Witness ==
  /\ last.op = "import"
  /\ last.args[1] = "ciphertext"
  /\ last.args[2] = exported[1].password
  /\ last.result.code = "DECRYPTION_FAILED"

\* C6: a successful import leaves the mnemonic, the counters and the accounts of
\* the imported snapshot and nothing else: an account held before the import whose
\* address is not in the snapshot is returned neither by getAccount nor by
\* getAccounts.
C6_ImportReplaces ==
  [][ (last'.op = "import" /\ last'.result.ok) =>
        LET snapshot == exported[1].snapshot
            imported == MapValues(snapshot.evmAccounts) \o MapValues(snapshot.solanaAccounts)
        IN /\ mnemonic' = snapshot.mnemonic
           /\ nextEvmIndex' = snapshot.nextEvmIndex
           /\ nextSolanaIndex' = snapshot.nextSolanaIndex
           /\ getAccounts' = imported
           /\ \A account \in Range(getAccounts) :
                (\A other \in Range(imported) : other.address # account.address)
                => /\ getAccount(account.address)' = <<>>
                   /\ \A now \in Range(getAccounts') : now.address # account.address ]_vars

\* a successful import into a keyring that held more accounts than the snapshot
C6_Witness ==
  /\ last.op = "import"
  /\ last.result.ok
  /\ last.before.accounts > Len(getAccounts)

\* C7: the HD wallet is present exactly when the mnemonic is; a new keyring is
\* locked; a locked keyring becomes unlocked only in a successful initialize,
\* restore or import, and an unlocked one becomes locked only in lock or destroy,
\* which always leave it locked.
C7_LockState ==
  /\ ~isUnlocked
  /\ []((hdWallet # Null) <=> (mnemonic # Null))
  /\ [][ (~isUnlocked /\ isUnlocked') =>
           (last'.op \in {"initialize", "restore", "import"} /\ last'.result.ok) ]_vars
  /\ [][ (isUnlocked /\ ~isUnlocked') => last'.op \in {"lock", "destroy"} ]_vars
  /\ [][ last'.op \in {"lock", "destroy"} => ~isUnlocked' ]_vars

\* a locked keyring that import has just unlocked
C7_Witness ==
  /\ last.op = "import"
  /\ ~last.before.unlocked
  /\ isUnlocked
  /\ hdWallet # Null

\* C8: on a locked keyring createAccount, getMnemonic and export return
\* WALLET_LOCKED and leave both account maps and both counters as they were.
C8_LockedCallsFail ==
  [][ (~isUnlocked /\ last'.op \in {"createAccount", "getMnemonic", "export"}) =>
        /\ last'.result = err("WALLET_LOCKED")
        /\ UNCHANGED <<evmAccounts, solanaAccounts, nextEvmIndex, nextSolanaIndex>> ]_vars

\* export refused on a locked keyring that holds accounts
C8_Witness ==
  /\ last.op = "export"
  /\ last.result.code = "WALLET_LOCKED"
  /\ Len(getAccounts) > 0

\* C5: decodeBase58(encodeBase58(bytes)) = bytes for every byte array, and
\* isValidSolanaAddress accepts the encoding of every 32-byte key.
C5_Base58RoundTrip ==
  /\ b58.pc \in {"decoded", "validated"} => b58.out = <<b58.bytes>>
  /\ (b58.pc = "validated" /\ Len(b58.bytes) = 32) => b58.valid

\* C11 as stated: between destroy() calls neither next-index counter ever
\* decreases, whatever sequence of initialize, restore, import, lock and
\* createAccount is run.
C11_CountersNeverDecrease ==
  [][ last'.op # "destroy" =>
        /\ nextEvmIndex' >= nextEvmIndex
        /\ nextSolanaIndex' >= nextSolanaIndex ]_vars

\* C11 (amended): neither counter decreases in any step other than destroy and a
\* successful import; a successful createAccount hands out the counter of its
\* family and adds one to it alone; a successful import sets both counters to
\* those of the imported snapshot.
C11_CountersDecreaseOnlyByImport ==
  /\ [][ ~(last'.op = "destroy" \/ (last'.op = "import" /\ last'.result.ok)) =>
           /\ nextEvmIndex' >= nextEvmIndex
           /\ nextSolanaIndex' >= nextSolanaIndex ]_vars
  /\ [][ (last'.op = "createAccount" /\ last'.result.ok) =>
           IF last'.args[1] = ChainFamilyEVM
           THEN /\ last'.result.value[1].index = nextEvmIndex
                /\ nextEvmIndex' = nextEvmIndex + 1
                /\ nextSolanaIndex' = nextSolanaIndex
           ELSE /\ last'.result.value[1].index = nextSolanaIndex
                /\ nextSolanaIndex' = nextSolanaIndex + 1
                /\ nextEvmIndex' = nextEvmIndex ]_vars
  /\ [][ (last'.op = "import" /\ last'.result.ok) =>
           /\ nextEvmIndex' = exported[1].snapshot.nextEvmIndex
           /\ nextSolanaIndex' = exported[1].snapshot.nextSolanaIndex ]_vars

\* import of a snapshot taken before any account existed, into a keyring that had
\* handed out index 0 of both families: both counters are back at zero
C11_Witness ==
  /\ last.op = "import"
  /\ last.result.ok
  /\ last.before.accounts = 2
  /\ nextEvmIndex = 0
  /\ nextSolanaIndex = 0

\* C20: import of an envelope whose kdf.algorithm is no known KDF tag fails with
\* UNSUPPORTED_ALGORITHM.
C20_UnknownKdfIsUnsupported ==
  (last.op = "import" /\ last.args[1] = "kdf-unknown")
  => last.result = err("UNSUPPORTED_ALGORITHM")

\* C12: exportMnemonic(password) succeeds only with a password that decrypts the
\* stored keyring, and with any other password returns UNAUTHORIZED, whatever
\* state the wallet is in.
C12_ExportMnemonicNeedsPassword ==
  [][ called'.op = "exportMnemonic" =>
        IF /\ Len(storage[WALLET_STORAGE_KEY]) > 0
           /\ keyringImport(NewKeyring, storage[WALLET_STORAGE_KEY][1],
                            called'.args[1]).result.ok
        THEN called'.result.ok \/ called'.result = err("UNAUTHORIZED")
        ELSE called'.result = err("UNAUTHORIZED") ]_vars

\* C13: a successful initialize of one wallet leaves in the storage the keyring and
\* the metadata another wallet id had stored there.
C13_WalletSpecificStorage ==
  [][ \A w \in Wallets :
        (/\ called'.wallet = w
         /\ called'.op = "initialize"
         /\ called'.result.ok
         /\ Len(storage[METADATA_STORAGE_KEY]) > 0
         /\ storage[METADATA_STORAGE_KEY][1].id # wallets'[w].metadata.id)
        => \A key \in {WALLET_STORAGE_KEY, METADATA_STORAGE_KEY} :
             \E kept \in DOMAIN storage' : storage'[kept] = storage[key] ]_vars

C15_RegistryMapsAreInverses ==
  /\ [] LET registry == loadAliasRegistry(storage)
        IN /\ \A alias \in DOMAIN registry.aliasToWalletId :
                /\ registry.aliasToWalletId[alias] \in DOMAIN registry.walletIdToAlias
                /\ registry.walletIdToAlias[registry.aliasToWalletId[alias]] = alias
           /\ \A walletId \in DOMAIN registry.walletIdToAlias :
                /\ registry.walletIdToAlias[walletId] \in DOMAIN registry.aliasToWalletId
                /\ registry.aliasToWalletId[registry.walletIdToAlias[walletId]] = walletId
  /\ [][ (called'.op = "reserveAlias" /\ called'.result.ok)
         => LET registry   == loadAliasRegistry(storage')
                walletId   == called'.wallet
                normalized == normalizeAlias(called'.args[1])
                previous   == RecordGet(called'.registry.walletIdToAlias, walletId)
            IN  /\ registry.walletIdToAlias[walletId] = normalized
                /\ registry.aliasToWalletId[normalized] = walletId
                /\ \A alias \in DOMAIN registry.aliasToWalletId :
                     registry.aliasToWalletId[alias] = walletId => alias = normalized
                /\ (Defined(previous) /\ previous[1] # normalized)
                     => previous[1] \notin DOMAIN registry.aliasToWalletId ]_vars
  /\ [][ called'.op = "releaseAlias"
         => LET registry == loadAliasRegistry(storage')
            IN  /\ called'.wallet \notin DOMAIN registry.walletIdToAlias
                /\ \A alias \in DOMAIN registry.aliasToWalletId :
                     registry.aliasToWalletId[alias] # called'.wallet ]_vars

\* a wallet id that held one alias has reserved another one, while a second
\* wallet id holds an alias of its own
C15_Witness ==
  /\ called.op = "reserveAlias"
  /\ called.result.ok
  /\ Defined(RecordGet(called.registry.walletIdToAlias, called.wallet))
  /\ RecordGet(called.registry.walletIdToAlias, called.wallet)[1]
       # normalizeAlias(called.args[1])
  /\ Cardinality(DOMAIN loadAliasRegistry(storage).aliasToWalletId) = 2

\* C16: called on a wallet that is not UNLOCKED, updateAlias, getAccounts,
\* getAccount, createAccount, signMessage, signTransaction and sendTransaction
\* return WALLET_LOCKED and change neither the metadata of the wallet nor the
\* storage (alias registry, stored keyring, stored metadata).
C16_LockedWalletRefuses ==
  [][ \A w \in Wallets :
        (/\ called'.wallet = w
         /\ called'.op \in { "updateAlias", "getAccounts", "getAccount", "createAccount",
                             "signMessage", "signTransaction", "sendTransaction" }
         /\ wallets[w].state # WalletStateUNLOCKED)
        => /\ called'.result = err("WALLET_LOCKED")
           /\ wallets'[w] = wallets[w]
           /\ storage' = storage ]_vars

\* updateAlias refused on a locked wallet that holds a registered alias
C16_Witness ==
  /\ called.op = "updateAlias"
  /\ called.before = WalletStateLOCKED
  /\ called.result = err("WALLET_LOCKED")
  /\ Defined(wallets[called.wallet].metadata.alias)
  /\ Defined(RecordGet(loadAliasRegistry(storage).walletIdToAlias,
                       wallets[called.wallet].metadata.id))

\* C17: destroy() of a LocalWallet removes the wallet's alias from both maps of
\* the registry, deletes the stored keyring and the stored metadata and leaves the
\* wallet UNINITIALIZED; the alias it held can then be reserved by another wallet id.
C17_DestroyReleasesAlias ==
  [][ \A w \in Wallets :
        (called'.wallet = w /\ called'.op = "destroy")
        => LET walletId == wallets[w].metadata.id
               previous == RecordGet(called'.registry.walletIdToAlias, walletId)
               registry == loadAliasRegistry(storage')
           IN  /\ walletId \notin DOMAIN registry.walletIdToAlias
               /\ \A alias \in DOMAIN registry.aliasToWalletId :
                    registry.aliasToWalletId[alias] # walletId
               /\ Len(storage'[WALLET_STORAGE_KEY]) = 0
               /\ Len(storage'[METADATA_STORAGE_KEY]) = 0
               /\ wallets'[w].state = WalletStateUNINITIALIZED
               /\ Defined(previous)
                    => \A other \in RegistryWalletIds \ {walletId} :
                         reserveAlias(storage', other, previous[1]).result.ok ]_vars

\* an initialized wallet that held a registered alias has been destroyed
C17_Witness ==
  /\ called.op = "destroy"
  /\ called.before = WalletStateUNLOCKED
  /\ Defined(RecordGet(called.registry.walletIdToAlias,
                       wallets[called.wallet].metadata.id))

\* C18: whenever unlock returns ok and the wallet's metadata has an alias, the
\* registry maps the normalized alias to the wallet's id and the id to the alias;
\* a wallet unlocked from the storage has taken the stored metadata.
C18_UnlockRegistersAlias ==
  [][ \A w \in Wallets :
        (called'.wallet = w /\ called'.op = "unlock" /\ called'.result.ok)
        => LET metadata == wallets'[w].metadata
               registry == loadAliasRegistry(storage')
           IN  /\ (wallets[w].state = WalletStateUNINITIALIZED)
                    => /\ Len(storage[METADATA_STORAGE_KEY]) > 0
                          => /\ metadata.id = storage[METADATA_STORAGE_KEY][1].id
                             /\ metadata.alias = storage[METADATA_STORAGE_KEY][1].alias
               /\ Defined(metadata.alias)
                    => /\ RecordGet(registry.aliasToWalletId,
                                    normalizeAlias(metadata.alias[1])) = <<metadata.id>>
                       /\ RecordGet(registry.walletIdToAlias, metadata.id)
                            = <<normalizeAlias(metadata.alias[1])>> ]_vars

\* a wallet object with no state of its own was unlocked from the storage, whose
\* metadata had an alias the registry did not hold, and the alias is registered now
C18_Witness ==
  /\ called.op = "unlock"
  /\ called.result.ok
  /\ called.before = WalletStateUNINITIALIZED
  /\ Defined(wallets[called.wallet].metadata.alias)
  /\ normalizeAlias(wallets[called.wallet].metadata.alias[1])
       \notin DOMAIN called.registry.aliasToWalletId

\* C19: every public operation of the LocalWallet reports its failure as an error
\* Result: none of them throws.
C19_NoOperationThrows ==
  called.result.code # Thrown.code

\* C21: restore(mnemonic) with a phrase that validateMnemonic rejects returns
\* INVALID_MNEMONIC and leaves the mnemonic, the HD wallet, the accounts and the
\* counters as they were; with a valid phrase it returns ok, leaves the keyring
\* unlocked with accounts and counters as they were, and a getMnemonic() that
\* follows returns exactly that phrase.
C21_RestoreValidatesThenAdopts ==
  /\ [][ last'.op = "restore" =>
           IF ~validateMnemonic(last'.args[1])
           THEN /\ last'.result = err("INVALID_MNEMONIC")
                /\ UNCHANGED keyringVars
           ELSE /\ last'.result = ok(<<>>)
                /\ isUnlocked'
                /\ UNCHANGED <<evmAccounts, solanaAccounts, nextEvmIndex, nextSolanaIndex>> ]_vars
  /\ [][ (last.op = "restore" /\ last.result.ok /\ last'.op = "getMnemonic")
         => last'.result = ok(<<last.args[1]>>) ]_vars

\* a locked keyring that holds accounts has been restored from a valid phrase
C21_Witness ==
  /\ last.op = "restore"
  /\ last.result.ok
  /\ ~last.before.unlocked
  /\ last.before.accounts > 0

\* C22: getAccount(address) returns the EVM account of the address under every
\* spelling of its letters and a Solana account under its exact spelling alone, and
\* null when the keyring holds no such account; getAccount, getAccounts and
\* getAccountsByChainFamily leave the keyring as it was; getAccounts is the EVM
\* list followed by the Solana list, and the list of a family holds the accounts of
\* that family alone.
C22_LookupsArePure ==
  /\ [][ last'.op \in {"getAccount", "getAccounts", "getAccountsByChainFamily"}
         => UNCHANGED keyringVars ]_vars
  /\ [] (last.op = "getAccount" =>
           LET held == {account \in Range(getAccounts) : AddressNames(account, last.args[1])}
           IN IF held = {} THEN last.result = ok(<<>>)
              ELSE \E account \in held : last.result = ok(<<account>>))
  /\ [] (last.op = "getAccounts" =>
           /\ last.result.value = getAccountsByChainFamily(ChainFamilyEVM)
                                    \o getAccountsByChainFamily(ChainFamilySOLANA)
           /\ \A i \in DOMAIN last.result.value :
                last.result.value[i].chainFamily \in {ChainFamilyEVM, ChainFamilySOLANA})
  /\ [] (last.op = "getAccountsByChainFamily" =>
           /\ Range(last.result.value)
                = {account \in Range(getAccounts) : account.chainFamily = last.args[1]}
           /\ Cardinality(Range(last.result.value)) = Len(last.result.value))

\* an EVM account found under the upper-case spelling of its address, in a keyring
\* that holds accounts of both families
C22_Witness ==
  /\ last.op = "getAccount"
  /\ last.args[1].form = "upper"
  /\ Len(last.result.value) > 0
  /\ Len(evmAccounts) > 0
  /\ Len(solanaAccounts) > 0

\* C23: the keyring a successful initialize stores decrypts under the password of
\* its options, the one a successful changePassword stores under the new password;
\* every other call, an unlock or an exportMnemonic with any password among them,
\* leaves a stored keyring that the same passwords decrypt as before the call.
C23_StoredKeyringFollowsPassword ==
  [][ LET decrypts(store, password) ==
            /\ Len(store[WALLET_STORAGE_KEY]) > 0
            /\ keyringImport(NewKeyring, store[WALLET_STORAGE_KEY][1], password).result.ok
      IN IF called'.op = "initialize" /\ called'.result.ok
         THEN decrypts(storage', called'.args[1].password)
         ELSE IF called'.op = "changePassword" /\ called'.result.ok
         THEN decrypts(storage', called'.args[2])
         ELSE (Len(storage[WALLET_STORAGE_KEY]) > 0 /\ Len(storage'[WALLET_STORAGE_KEY]) > 0)
              => \A password \in Passwords :
                   decrypts(storage', password) <=> decrypts(storage, password) ]_vars

\* C24: whenever the keyring is unlocked, every account it holds with an index
\* i >= 0 has the address derived from the current mnemonic at the account's chain
\* family and i.
C24_AccountsOfCurrentMnemonic ==
  isUnlocked =>
    \A account \in Range(getAccounts) :
      account.index >= 0 =>
        account.address =
          IF account.chainFamily = ChainFamilyEVM
          THEN publicKeyToEvmAddress(deriveEvmKey(HDWalletFromMnemonic(mnemonic), account.index))
          ELSE seedToSolanaAddress(deriveSolanaKey(HDWalletFromMnemonic(mnemonic), account.index))

\* C25: whenever the keyring is unlocked, getPrivateKey succeeds for the address of
\* every account getAccounts() returns.
C25_UnlockedKeyringHasEveryKey ==
  isUnlocked => \A account \in Range(getAccounts) : getPrivateKey(account.address).ok

\* C26: between the operations of a wallet its state is UNLOCKED exactly when its
\* keyring holds a mnemonic, and an initialize or unlock that returns an error on a
\* wallet that was not unlocked leaves the state of the wallet as it was and a
\* keyring with no mnemonic, no HD wallet and no key field that is not blank.
C26_StateFollowsKeyring ==
  /\ [](\A w \in Wallets :
          (wallets[w].state = WalletStateUNLOCKED) <=> (wallets[w].keyring.mnemonic # Null))
  /\ [][ \A w \in Wallets :
           ( /\ called'.wallet = w
             /\ called'.op \in {"initialize", "unlock"}
             /\ ~called'.result.ok
             /\ wallets[w].state # WalletStateUNLOCKED )
           => /\ wallets'[w].state = wallets[w].state
              /\ wallets'[w].keyring.mnemonic = Null
              /\ wallets'[w].keyring.hdWallet = Null
              /\ \A account \in Range(MapValues(wallets'[w].keyring.evmAccounts))
                       \cup Range(MapValues(wallets'[w].keyring.solanaAccounts)) :
                   ~Truthy(account.privateKey) ]_vars

\* C27: an initialize that returns an error on an uninitialized wallet leaves the
\* storage as it was and the keyring as new Keyring() makes it, and an initialize
\* that succeeds leaves exactly one EVM and one Solana account, each at index 0 and
\* each the account derived at index 0 from the mnemonic the keyring then holds.
C27_FailedInitializeLeavesNothing ==
  [][ \A w \in Wallets :
        (called'.wallet = w /\ called'.op = "initialize")
        => LET keyring == wallets'[w].keyring
               evm == MapValues(keyring.evmAccounts)
               solana == MapValues(keyring.solanaAccounts)
           IN IF called'.result.ok
              THEN /\ Len(evm) = 1
                   /\ Len(solana) = 1
                   /\ evm[1].index = 0
                   /\ solana[1].index = 0
                   /\ evm[1].address = publicKeyToEvmAddress(
                                          deriveEvmKey(HDWalletFromMnemonic(keyring.mnemonic), 0))
                   /\ solana[1].address = seedToSolanaAddress(
                                             deriveSolanaKey(HDWalletFromMnemonic(keyring.mnemonic), 0))
              ELSE wallets[w].state = WalletStateUNINITIALIZED
                   => /\ storage' = storage
                      /\ keyring = NewKeyring ]_vars

\* C28: an import that returns an error (the password is not the one of the export,
\* the ciphertext was altered, or the KDF tag is not the supported one) leaves the
\* mnemonic, the HD wallet, both account maps with every field of every account,
\* and both index counters as they were before the call.
C28_FailedImportChangesNothing ==
  [][ (last'.op = "import" /\ ~last'.result.ok) => UNCHANGED keyringVars ]_vars

\* a wrong password was refused by an unlocked keyring that holds accounts, none of
\* them in the envelope
C28_Witness ==
  /\ last.op = "import"
  /\ last.args[1] = "none"
  /\ last.args[2] # exported[1].password
  /\ last.result.code = "DECRYPTION_FAILED"
  /\ last.before.unlocked
  /\ isUnlocked
  /\ Len(evmAccounts) + Len(solanaAccounts) > 0
  /\ Len(exported[1].snapshot.evmAccounts) + Len(exported[1].snapshot.solanaAccounts) = 0
====
